---- MODULE Spec2Model ----
(***************************************************************************)
(* A model of the result-analysis engine of searxng_search_mcp             *)
(* (src/src/searxng_search_mcp/analyzer.py, class SearchResultAnalyzer).   *)
(*                                                                         *)
(* Python values are represented as follows.                               *)
(*   str        a sequence of one-character strings, <<"a", "b">>          *)
(*   dict with fixed keys      a record; DOMAIN is the key set             *)
(*   dict with computed keys   a sequence of [key, value] entries in       *)
(*                             insertion order (keys pairwise distinct)    *)
(*   list       a sequence                                                 *)
(*   tuple / list of two items where the difference matters                *)
(*              [py |-> "tuple" or "list", items |-> <<a, b>>]             *)
(*   int        an integer                                                 *)
(*   float      a score built from the literals 0.1 .. 1.0 is the exact     *)
(*              double [tenths, dev]; a quotient that is only reported is  *)
(*              the exact fraction [num |-> n, den |-> d] with d > 0       *)
(* A record field of a search result is [tag, s]: tag "str" with the text  *)
(* s, tag "none" for a key present with value None, tag "absent" for a     *)
(* missing key.                                                            *)
(***************************************************************************)
EXTENDS Integers, Sequences, FiniteSets, TLC

VARIABLES
    search_results,    \* the list passed to analyze_search_results
    max_results,       \* SearchResultAnalyzer.max_results
    min_keyword_freq,  \* SearchResultAnalyzer.min_keyword_freq
    pc,                \* "idle": no call in progress; "returned": a call has returned
    analysis_type,     \* the mode string of the call that has returned
    outcome,           \* what that call returned or raised
    stop_words,        \* SearchResultAnalyzer.stop_words
    calls,             \* how many calls the analyzer has served, up to MaxCalls
    tasks,             \* the analyze_search_results tool calls that wait to run
    handled,           \* the analyze_search_results tool call that ran last
    web                \* the latest metasearch_web or fetch_web_content tool call

vars ==
    <<search_results, max_results, min_keyword_freq, pc, analysis_type, outcome,
      stop_words, calls, tasks, handled, web>>

-----------------------------------------------------------------------------
(* Characters and strings *)

LowerLetters ==
    {"a", "b", "c", "d", "e", "f", "g", "h", "i", "j", "k", "l", "m",
     "n", "o", "p", "q", "r", "s", "t", "u", "v", "w", "x", "y", "z"}

UpperLetters ==
    {"A", "B", "C", "D", "E", "F", "G", "H", "I", "J", "K", "L", "M",
     "N", "O", "P", "Q", "R", "S", "T", "U", "V", "W", "X", "Y", "Z"}

UpperToLower ==
    [c \in UpperLetters |->
        CASE c = "A" -> "a" [] c = "B" -> "b" [] c = "C" -> "c" [] c = "D" -> "d"
          [] c = "E" -> "e" [] c = "F" -> "f" [] c = "G" -> "g" [] c = "H" -> "h"
          [] c = "I" -> "i" [] c = "J" -> "j" [] c = "K" -> "k" [] c = "L" -> "l"
          [] c = "M" -> "m" [] c = "N" -> "n" [] c = "O" -> "o" [] c = "P" -> "p"
          [] c = "Q" -> "q" [] c = "R" -> "r" [] c = "S" -> "s" [] c = "T" -> "t"
          [] c = "U" -> "u" [] c = "V" -> "v" [] c = "W" -> "w" [] c = "X" -> "x"
          [] c = "Y" -> "y" [] c = "Z" -> "z"]

Digits == {"0", "1", "2", "3", "4", "5", "6", "7", "8", "9"}

\* str.lower() on one character
LowerChar(c) == IF c \in UpperLetters THEN UpperToLower[c] ELSE c

\* str.lower()
Lower(s) == [i \in 1..Len(s) |-> LowerChar(s[i])]

\* the regular expression class \w on the modelled alphabet
IsWordChar(c) == c \in LowerLetters \/ c \in UpperLetters \/ c \in Digits \/ c = "_"

\* str.isspace() on the modelled alphabet
IsSpace(c) == c = " "

\* s.startswith(prefix)
StartsWith(s, prefix) ==
    Len(s) >= Len(prefix) /\ \A i \in 1..Len(prefix) : s[i] = prefix[i]

\* s.endswith(suffix)
EndsWith(s, suffix) ==
    Len(s) >= Len(suffix) /\
    \A i \in 1..Len(suffix) : s[Len(s) - Len(suffix) + i] = suffix[i]

\* word in text (substring test)
Contains(text, word) ==
    \E i \in 1..(Len(text) - Len(word) + 1) :
        \A j \in 1..Len(word) : text[i + j - 1] = word[j]

\* any(word in text for word in words)
ContainsAny(text, words) == \E k \in 1..Len(words) : Contains(text, words[k])

\* s[:n] for n >= 0
Take(s, n) == SubSeq(s, 1, IF n < Len(s) THEN n ELSE Len(s))

\* s[n:] for n >= 0
Drop(s, n) == SubSeq(s, n + 1, Len(s))

RECURSIVE Flatten(_)
\* the concatenation of a list of lists (list.extend in a loop)
Flatten(ss) == IF ss = <<>> THEN <<>> ELSE Head(ss) \o Flatten(Tail(ss))

RECURSIVE SeqSum(_)
\* sum(...) of a list of integers
SeqSum(ns) == IF ns = <<>> THEN 0 ELSE Head(ns) + SeqSum(Tail(ns))

\* the set of the items of a list
Range(s) == {s[i] : i \in 1..Len(s)}

\* the p-th smallest member of a set of integers, p in 1..Cardinality(S)
Nth(S, p) == CHOOSE x \in S : Cardinality({y \in S : y < x}) = p - 1

\* the members of a set of indices in increasing order
Ascending(S) == [p \in 1..Cardinality(S) |-> Nth(S, p)]

\* whether a character belongs to a class: "word" is \w, "nonspace" is what
\* str.split() keeps
InClass(c, class) == IF class = "word" THEN IsWordChar(c) ELSE ~IsSpace(c)

\* the indices at which a maximal run of characters of a class starts
RunStarts(text, class) ==
    {i \in 1..Len(text) :
        InClass(text[i], class) /\ (i = 1 \/ ~InClass(text[i - 1], class))}

\* the last index of the run of characters of a class that holds index i
RunEnd(text, i, class) ==
    CHOOSE j \in i..Len(text) :
        /\ j = Len(text) \/ ~InClass(text[j + 1], class)
        /\ \A k \in i..j : InClass(text[k], class)

\* re.findall(r"\b[a-z]{n,}\b", text): between two word boundaries lies a whole
\* run of \w characters, so a match is a maximal \w run made of a-z only, of
\* length at least n; the matches come in order of position
FindAllWords(text, n) ==
    LET order ==
            Ascending({i \in RunStarts(text, "word") :
                /\ RunEnd(text, i, "word") - i + 1 >= n
                /\ \A k \in i..RunEnd(text, i, "word") : text[k] \in LowerLetters})
    IN  [p \in 1..Len(order) |-> SubSeq(text, order[p], RunEnd(text, order[p], "word"))]

\* len(content.split()): the number of maximal runs of non-space characters
SplitCount(text) == Cardinality(RunStarts(text, "nonspace"))

\* set(content.split()): the distinct maximal runs of non-space characters
SplitSet(text) ==
    {SubSeq(text, i, RunEnd(text, i, "nonspace")) : i \in RunStarts(text, "nonspace")}

\* len(content.split(".")): one more than the number of dots
SplitDotCount(text) == Cardinality({i \in 1..Len(text) : text[i] = "."}) + 1

-----------------------------------------------------------------------------
(* Fractions standing for Python floats *)

Frac(n, d) == [num |-> n, den |-> d]

-----------------------------------------------------------------------------
(* Search results: the input of the analyzer *)

Str(s) == [tag |-> "str", s |-> s]

None == [tag |-> "none", s |-> <<>>]

Absent == [tag |-> "absent", s |-> <<>>]

\* {"title": "Python Guide", "url": "https://www.GitHub.com/py",
\*  "content": "python new, python"}
rGithub ==
    [title |-> Str(<<"P", "y", "t", "h", "o", "n", " ", "G", "u", "i", "d", "e">>),
     url |-> Str(<<"h", "t", "t", "p", "s", ":", "/", "/", "w", "w", "w", ".", "G", "i", "t", "H", "u", "b", ".", "c", "o", "m", "/", "p", "y">>),
     content |-> Str(<<"p", "y", "t", "h", "o", "n", " ", "n", "e", "w", ",", " ", "p", "y", "t", "h", "o", "n">>)]

\* {"title": "Python", "url": "http://nasa.gov", "content": ""}
rGov ==
    [title |-> Str(<<"P", "y", "t", "h", "o", "n">>),
     url |-> Str(<<"h", "t", "t", "p", ":", "/", "/", "n", "a", "s", "a", ".", "g", "o", "v">>),
     content |-> Str(<<>>)]

\* {"title": None, "url": None, "content": None}
rNull == [title |-> None, url |-> None, content |-> None]

\* "1 2 3 ... 21 latest guide, tips. one. two. " followed by 250 zeros:
\* 334 characters, 27 distinct whitespace-separated tokens, 4 parts between dots
LongContent ==
    <<"1", " ", "2", " ", "3", " ", "4", " ", "5", " ", "6", " ", "7", " ", "8", " ", "9", " ", "1", "0", " ", "1", "1", " ", "1", "2", " ", "1", "3", " ", "1", "4", " ", "1", "5", " ", "1", "6", " ", "1", "7", " ", "1", "8", " ", "1", "9", " ", "2", "0", " ", "2", "1">>
    \o <<" ", "l", "a", "t", "e", "s", "t", " ", "g", "u", "i", "d", "e", ",", " ", "t", "i", "p", "s", ".", " ", "o", "n", "e", ".", " ", "t", "w", "o", ".", " ">>
    \o [i \in 1..250 |-> "0"]

\* {"title": "Guide", "url": "https://docs.python.org/3/", "content": LongContent}
rLong ==
    [title |-> Str(<<"G", "u", "i", "d", "e">>),
     url |-> Str(<<"h", "t", "t", "p", "s", ":", "/", "/", "d", "o", "c", "s", ".", "p", "y", "t", "h", "o", "n", ".", "o", "r", "g", "/", "3", "/">>),
     content |-> Str(LongContent)]

\* {"title": "py3: the_end the", "url": "not-a-url"}
rBadUrl ==
    [title |-> Str(<<"p", "y", "3", ":", " ", "t", "h", "e", "_", "e", "n", "d", " ", "t", "h", "e">>),
     url |-> Str(<<"n", "o", "t", "-", "a", "-", "u", "r", "l">>),
     content |-> Absent]

\* {"title": "", "url": "https://fakenews.com", "content": "old history."}
rFake ==
    [title |-> Str(<<>>),
     url |-> Str(<<"h", "t", "t", "p", "s", ":", "/", "/", "f", "a", "k", "e", "n", "e", "w", "s", ".", "c", "o", "m">>),
     content |-> Str(<<"o", "l", "d", " ", "h", "i", "s", "t", "o", "r", "y", ".">>)]

\* {"title": "Python news", "content": "python tips"}
rNoUrl ==
    [title |-> Str(<<"P", "y", "t", "h", "o", "n", " ", "n", "e", "w", "s">>),
     url |-> Absent,
     content |-> Str(<<"p", "y", "t", "h", "o", "n", " ", "t", "i", "p", "s">>)]

\* {"url": "https://x.edu.io/a"}
rOnlyUrl ==
    [title |-> Absent,
     url |-> Str(<<"h", "t", "t", "p", "s", ":", "/", "/", "x", ".", "e", "d", "u", ".", "i", "o", "/", "a">>),
     content |-> Absent]

\* the records a caller may pass
RecordPool == {rGithub, rGov, rNull, rLong, rBadUrl, rFake}

\* the longest list of records a caller passes
MaxLen == 3

\* the lists of records a caller may pass
RecordLists == UNION {[1..n -> RecordPool] : n \in 0..MaxLen}

\* records that lack keys, and a complete one
PartialPool == {rNoUrl, rOnlyUrl, rLong}

\* the lists of such records a caller may pass
PartialLists == UNION {[1..n -> PartialPool] : n \in 0..MaxLen}

\* the mode strings a caller may pass: the five modes and an unrecognized one
AnalysisTypes == {"summary", "trends", "sources", "keywords", "relevance", "invalid_type"}

\* max_results as the constructor sets it
DefaultMaxResults == 10

\* min_keyword_freq as the constructor sets it
DefaultMinKeywordFreq == 2

\* the values a caller may assign to max_results
MaxResultsArgs == {-1, 0, 1, 2, DefaultMaxResults}

\* result.get(key): None for a missing key, where the default "" is meant
GetWithoutDefault(field) == IF field.tag = "absent" THEN None ELSE field

\* result.get(key, ""): the value of a present key (None included), "" for a
\* missing key
Get(field) == IF field.tag = "absent" THEN Str(<<>>) ELSE field

\* the truth value of result.get(key) / result.get(key, ""): a non-empty string
Truthy(field) == field.tag = "str" /\ field.s # <<>>

\* self.stop_words as the constructor sets it
self_stop_words ==
    {<<"t", "h", "e">>, <<"a">>, <<"a", "n">>, <<"a", "n", "d">>, <<"o", "r">>, <<"b", "u", "t">>, <<"i", "n">>, <<"o", "n">>, <<"a", "t">>,
     <<"t", "o">>, <<"f", "o", "r">>, <<"o", "f">>, <<"w", "i", "t", "h">>, <<"b", "y">>, <<"f", "r", "o", "m">>, <<"u", "p">>, <<"a", "b", "o", "u", "t">>,
     <<"i", "n", "t", "o">>, <<"t", "h", "r", "o", "u", "g", "h">>, <<"d", "u", "r", "i", "n", "g">>, <<"b", "e", "f", "o", "r", "e">>, <<"a", "f", "t", "e", "r">>, <<"a", "b", "o", "v", "e">>,
     <<"b", "e", "l", "o", "w">>, <<"b", "e", "t", "w", "e", "e", "n">>, <<"a", "m", "o", "n", "g">>, <<"i", "s">>, <<"a", "r", "e">>, <<"w", "a", "s">>, <<"w", "e", "r", "e">>,
     <<"b", "e">>, <<"b", "e", "e", "n">>, <<"b", "e", "i", "n", "g">>, <<"h", "a", "v", "e">>, <<"h", "a", "s">>, <<"h", "a", "d">>, <<"d", "o">>, <<"d", "o", "e", "s">>,
     <<"d", "i", "d">>, <<"w", "i", "l", "l">>, <<"w", "o", "u", "l", "d">>, <<"c", "o", "u", "l", "d">>, <<"s", "h", "o", "u", "l", "d">>, <<"m", "a", "y">>, <<"m", "i", "g", "h", "t">>,
     <<"m", "u", "s", "t">>, <<"c", "a", "n">>, <<"t", "h", "i", "s">>, <<"t", "h", "a", "t">>, <<"t", "h", "e", "s", "e">>, <<"t", "h", "o", "s", "e">>, <<"i">>, <<"y", "o", "u">>,
     <<"h", "e">>, <<"s", "h", "e">>, <<"i", "t">>, <<"w", "e">>, <<"t", "h", "e", "y">>, <<"t", "h", "e", "m">>, <<"t", "h", "e", "i", "r">>, <<"w", "h", "a", "t">>,
     <<"w", "h", "i", "c", "h">>, <<"w", "h", "o">>, <<"w", "h", "e", "n">>, <<"w", "h", "e", "r", "e">>, <<"w", "h", "y">>, <<"h", "o", "w">>, <<"a", "l", "l">>, <<"e", "a", "c", "h">>,
     <<"e", "v", "e", "r", "y">>, <<"s", "o", "m", "e">>, <<"a", "n", "y">>, <<"f", "e", "w">>, <<"m", "o", "r", "e">>, <<"m", "o", "s", "t">>, <<"o", "t", "h", "e", "r">>,
     <<"s", "u", "c", "h">>, <<"n", "o">>, <<"n", "o", "t">>, <<"o", "n", "l", "y">>, <<"o", "w", "n">>, <<"s", "a", "m", "e">>, <<"s", "o">>, <<"t", "h", "a", "n">>,
     <<"t", "o", "o">>, <<"v", "e", "r", "y">>, <<"j", "u", "s", "t">>, <<"n", "o", "w">>}

-----------------------------------------------------------------------------
(* urllib.parse.urlparse(url).netloc *)

\* url.find(c) + 1: the first index of c in s, 0 when there is none
FirstIndex(s, c) ==
    IF \E i \in 1..Len(s) : s[i] = c
    THEN CHOOSE i \in 1..Len(s) : s[i] = c /\ \A j \in 1..(i - 1) : s[j] # c
    ELSE 0

\* urlsplit's scheme_chars
IsSchemeChar(c) ==
    c \in LowerLetters \/ c \in UpperLetters \/ c \in Digits \/ c \in {"+", "-", "."}

\* urlsplit: the url with a leading "<scheme>:" removed
AfterScheme(url) ==
    LET i == FirstIndex(url, ":")
    IN  IF /\ i > 1
           /\ (url[1] \in LowerLetters \/ url[1] \in UpperLetters)
           /\ \A j \in 1..(i - 1) : IsSchemeChar(url[j])
        THEN Drop(url, i)
        ELSE url

\* _splitnetloc: after "//", the text up to the first of / ? #
SplitNetloc(rest) ==
    LET ends == {i \in 3..Len(rest) : rest[i] \in {"/", "?", "#"}}
    IN  IF Len(rest) >= 2 /\ rest[1] = "/" /\ rest[2] = "/"
        THEN SubSeq(rest, 3, (IF ends = {} THEN Len(rest) + 1
                              ELSE CHOOSE i \in ends : \A j \in ends : i <= j) - 1)
        ELSE <<>>

\* urlparse(url).netloc
Netloc(url) == SplitNetloc(AfterScheme(url))

\* urlsplit raises ValueError("Invalid IPv6 URL") on an unmatched bracket in
\* the network location (the check of the text between matched brackets is
\* not modelled)
UrlparseRaises(netloc) == ("[" \in Range(netloc)) # ("]" \in Range(netloc))

-----------------------------------------------------------------------------
(* The two extraction passes *)

\* domain = domain[4:] if domain.startswith("www."); domains.append(domain)
WithoutWww(domain) ==
    IF StartsWith(domain, <<"w", "w", "w", ".">>) THEN <<Drop(domain, 4)>> ELSE <<domain>>

\* the try block of _extract_domains on the network location of the url: the
\* domains it appends, none when urlparse raises
DomainsOfNetloc(netloc) ==
    IF UrlparseRaises(netloc) THEN <<>> ELSE WithoutWww(Lower(netloc))

\* url = result.get("url", ""); if url: the domains appended for this url
DomainsOfUrl(url) == IF ~Truthy(url) THEN <<>> ELSE DomainsOfNetloc(Netloc(url.s))

\* one iteration of the loop of _extract_domains: the domains it appends
DomainsOfResult(result) == DomainsOfUrl(Get(result.url))

_extract_domains(results) ==
    Flatten([i \in 1..Len(results) |-> DomainsOfResult(results[i])])

\* re.findall(r"\b[a-z]{3,}\b", text) on the text as given, where the text in
\* lowercase is meant
KeywordsOfTextAsGiven(text) ==
    SelectSeq(FindAllWords(text, 3), LAMBDA w : w \notin stop_words)

\* re.findall(r"\b[a-z]{3,}\b", text) without the stop words
KeywordsOfText(text) ==
    SelectSeq(FindAllWords(Lower(text), 3), LAMBDA w : w \notin stop_words)

\* one iteration of the loop of _extract_keywords
KeywordsOfResult(result) ==
    KeywordsOfText(Get(result.title).s) \o KeywordsOfText(Get(result.content).s)

_extract_keywords(results) ==
    Flatten([i \in 1..Len(results) |-> KeywordsOfResult(results[i])])

\* None.lower(): result.get(key, "") is None for a key present with value
\* None, and None has no method lower (AttributeError)
LowerRaises(result) ==
    Get(result.title).tag = "none" \/ Get(result.content).tag = "none"

_extract_keywords_raises(results) ==
    \E i \in 1..Len(results) : LowerRaises(results[i])

-----------------------------------------------------------------------------
(* collections.Counter *)

\* the distinct items of a list in the order of their first occurrence
FirstSeen(items) ==
    LET first == Ascending({i \in 1..Len(items) : \A j \in 1..(i - 1) : items[j] # items[i]})
    IN  [p \in 1..Len(first) |-> items[first[p]]]

\* the number of occurrences of x in a list
CountOf(items, x) == Cardinality({i \in 1..Len(items) : items[i] = x})

\* the entries of the given keys with their counts in items
CountEntries(items, keys) ==
    [i \in 1..Len(keys) |-> [key |-> keys[i], value |-> CountOf(items, keys[i])]]

\* Counter(items): the entries [key, value] in insertion (first-seen) order
Counter(items) == CountEntries(items, FirstSeen(items))

\* the position of entry i when the entries are sorted by value, largest
\* first, entries of equal value keeping their order (a stable sort)
RankOf(entries, i) ==
    1 + Cardinality({j \in 1..Len(entries) :
                        \/ entries[j].value > entries[i].value
                        \/ entries[j].value = entries[i].value /\ j < i})

\* the first n entries in insertion order, where the n most common are meant
FirstInserted(entries, n) == Take(entries, n)

\* Counter.most_common(n): sorted(items, key=value, reverse=True)[:n]
MostCommon(entries, n) ==
    Take([p \in 1..Len(entries) |->
             entries[CHOOSE i \in 1..Len(entries) : RankOf(entries, i) = p]], n)

\* a Python tuple (key, count), as most_common yields it
PyTuple(a, b) == [py |-> "tuple", items |-> <<a, b>>]

\* a Python list [key, count], as json.loads yields it
PyList(a, b) == [py |-> "list", items |-> <<a, b>>]

\* a list of entries as a list of tuples (key, count)
Tuples(entries) == [i \in 1..Len(entries) |-> PyTuple(entries[i].key, entries[i].value)]

\* the tuples of most_common(n)
MostCommonTuples(entries, n) == Tuples(MostCommon(entries, n))

-----------------------------------------------------------------------------
(* Python floats (IEEE 754 doubles) that lie near a multiple of 0.1: the      *)
(* literals 0.1 .. 1.0 and their sums.  [tenths |-> t, dev |-> d] is the      *)
(* double of value (t * 2^55 + d) / (10 * 2^55): d counts the distance from   *)
(* t/10 in units of 1 / (10 * 2^55), and every operation below is exact.      *)

Float10(t, d) == [tenths |-> t, dev |-> d]

\* 2^55 modulo s, for the spacings s of the doubles below 16 in these units
Pow55Mod(s) ==
    CASE s = 5 -> 3 [] s = 10 -> 8 [] s = 20 -> 8 [] s = 40 -> 8 [] s = 80 -> 48
      [] s = 160 -> 128 [] s = 320 -> 128 [] s = 640 -> 128 [] s = 1280 -> 768

\* the distance between neighbouring doubles in the binade [2^e, 2^(e+1))
\* that holds t/10, t >= 1: 2^(e-52), in these units
BinadeSpacing(t) ==
    CHOOSE x \in {5, 10, 20, 40, 80, 160, 320, 640} : x <= 8 * t /\ 8 * t < 2 * x

\* the distance between neighbouring doubles around the value (t, d): a value
\* just below a power of two lies in the binade below
Spacing(t, d) ==
    IF 8 * t = BinadeSpacing(t) /\ d < 0 THEN BinadeSpacing(t) \div 2
    ELSE BinadeSpacing(t)

\* the distance of the value (t, d) from the multiple of s below it
Residue(t, d, s) == (t * Pow55Mod(s) + d) % s

\* the value (t, d), r above a double, among doubles s apart: the nearest
\* double, below when up says so
Nearest(t, d, s, r, up) == IF up THEN Float10(t, d - r + s) ELSE Float10(t, d - r)

\* the value (t, d) rounded among doubles s apart: up when it lies above the
\* middle, or on it with the double below of odd mantissa
RoundAt(t, d, s) ==
    Nearest(t, d, s, Residue(t, d, s),
            \/ 2 * Residue(t, d, s) > s
            \/ 2 * Residue(t, d, s) = s /\ Residue(t, d, 2 * s) # Residue(t, d, s))

\* the exact real value (t, d) rounded to the nearest double, ties to the
\* even mantissa
RoundToDouble(t, d) ==
    IF t = 0 THEN Float10(0, 0) ELSE RoundAt(t, d, Spacing(t, d))

\* the float literal a/10 for a in 0..10
Literal(a) == RoundToDouble(a, 0)

\* x + y
FloatPlus(x, y) == RoundToDouble(x.tenths + y.tenths, x.dev + y.dev)

\* x <= y
FloatLeq(x, y) == x.tenths < y.tenths \/ (x.tenths = y.tenths /\ x.dev <= y.dev)

\* x < y
FloatLess(x, y) == x.tenths < y.tenths \/ (x.tenths = y.tenths /\ x.dev < y.dev)

\* min(score, 1.0)
FloatMin1(x) == IF FloatLeq(x, Literal(10)) THEN x ELSE Literal(10)

RECURSIVE FloatSumFrom(_, _)
\* sum(scores): the scores added one by one, starting from acc
FloatSumFrom(scores, acc) ==
    IF scores = <<>> THEN acc
    ELSE FloatSumFrom(Tail(scores), FloatPlus(acc, Head(scores)))

\* score = 0.0, then score += a/10 for each a of a list of tenths
FloatSumOfTenths(tenths) ==
    FloatSumFrom([k \in 1..Len(tenths) |-> Literal(tenths[k])], Literal(0))

\* whether the mantissa of the double c is odd
OddMantissa(c) ==
    Residue(c.tenths, c.dev, 2 * Spacing(c.tenths, c.dev)) = Spacing(c.tenths, c.dev)

\* total / n > c for doubles total and c (c no power of two) and n >= 1: the
\* quotient rounds to a double above c when the exact quotient lies above the
\* midpoint of c and the next double, or on it with c's mantissa odd
QuotientAbove(total, n, c) ==
    \/ total.tenths > n * c.tenths
    \/ /\ total.tenths = n * c.tenths
       /\ \/ 2 * total.dev > n * (2 * c.dev + Spacing(c.tenths, c.dev))
          \/ /\ 2 * total.dev = n * (2 * c.dev + Spacing(c.tenths, c.dev))
             /\ OddMantissa(c)

\* total / n < c, likewise
QuotientBelow(total, n, c) ==
    \/ total.tenths < n * c.tenths
    \/ /\ total.tenths = n * c.tenths
       /\ \/ 2 * total.dev < n * (2 * c.dev - Spacing(c.tenths, c.dev))
          \/ /\ 2 * total.dev = n * (2 * c.dev - Spacing(c.tenths, c.dev))
             /\ OddMantissa(c)

-----------------------------------------------------------------------------
(* Mode summary *)

\* an entry of an insight or recommendation list: the fixed text and the
\* strings formatted into it
Message(text, args) == [text |-> text, args |-> args]

\* the title words of one result that _identify_themes collects
ThemeWordsOfResult(result) ==
    SelectSeq(FindAllWords(Lower(Get(result.title).s), 4),
              LAMBDA w : w \notin stop_words)

\* the keys of a list of entries, in order
Keys(entries) == [i \in 1..Len(entries) |-> entries[i].key]

_identify_themes(results) ==
    LET title_words == Flatten([i \in 1..Len(results) |-> ThemeWordsOfResult(results[i])])
        common == MostCommon(Counter(title_words), 5)
    IN  Keys(SelectSeq(common, LAMBDA e : e.value >= 2))

\* the completeness score of one result, in tenths
CoverageOfResult(result) ==
    (IF Truthy(result.title) THEN 3 ELSE 0)
    + (IF Truthy(result.url) THEN 2 ELSE 0)
    + (IF Len(Get(result.content).s) > 50 THEN 5 ELSE 0)

\* total_score / len(results); the rounding error of the float sum is not
\* modelled
_calculate_coverage(results) ==
    IF results = <<>> THEN Frac(0, 1)
    ELSE Frac(SeqSum([i \in 1..Len(results) |-> CoverageOfResult(results[i])]),
              10 * Len(results))

\* len(items) where len(set(items)) is meant
LenWithoutSet(items) == Len(items)

\* len(set(items))
UniqueCount(items) == Cardinality(Range(items))

_generate_summary_insights(results, themes, keywords) ==
    (IF Len(results) < 5
     THEN <<Message("Limited number of results available for comprehensive analysis", <<>>)>>
     ELSE <<>>)
    \o (IF UniqueCount(_extract_domains(results)) = 1
        THEN <<Message("All results from single domain - limited source diversity", <<>>)>>
        ELSE <<>>)
    \o (IF themes # <<>>
        THEN <<Message("Primary themes identified: {}", Take(themes, 3))>>
        ELSE <<>>)
    \o (IF keywords # <<>> /\ 2 * keywords[1].value > Len(results)
        THEN <<Message("Dominant keyword: '{}' appears in majority of results",
                       <<keywords[1].key>>)>>
        ELSE <<>>)

\* a list of entries as the list of {"keyword": key, "frequency": count}
KeywordFrequencies(entries) ==
    [i \in 1..Len(entries) |->
        [keyword |-> entries[i].key, frequency |-> entries[i].value]]

\* the report of _analyze_summary, given its extracted domains, its
\* top_keywords and its themes
SummaryReport(results, domains, top_keywords, themes) ==
    [analysis_type |-> "summary",
     metrics |->
        [total_results |-> Len(results),
         unique_domains |-> UniqueCount(domains),
         domain_diversity |->
            IF Len(results) > 0 THEN Frac(UniqueCount(domains), Len(results))
            ELSE Frac(0, 1),
         coverage_score |-> _calculate_coverage(results)],
     themes |-> themes,
     top_keywords |-> KeywordFrequencies(top_keywords),
     top_domains |-> MostCommonTuples(Counter(domains), 5),
     insights |-> _generate_summary_insights(results, themes, top_keywords)]

_analyze_summary(results) ==
    SummaryReport(results,
                  _extract_domains(results),
                  MostCommon(Counter(_extract_keywords(results)), 10),
                  _identify_themes(results))

\* _extract_keywords is the first step of _analyze_summary that reads title
\* and content; it raises AttributeError on a None title or content
_analyze_summary_raises(results) == _extract_keywords_raises(results)

-----------------------------------------------------------------------------
(* Mode trends *)

recent_words ==
    <<<<"r", "e", "c", "e", "n", "t">>, <<"l", "a", "t", "e", "s", "t">>, <<"n", "e", "w">>, <<"n", "o", "w">>, <<"t", "o", "d", "a", "y">>, <<"c", "u", "r", "r", "e", "n", "t">>, <<"b", "r", "e", "a", "k", "i", "n", "g">>>>

historical_words ==
    <<<<"h", "i", "s", "t", "o", "r", "y">>, <<"h", "i", "s", "t", "o", "r", "i", "c", "a", "l">>, <<"p", "a", "s", "t">>, <<"f", "o", "r", "m", "e", "r">>, <<"p", "r", "e", "v", "i", "o", "u", "s">>, <<"o", "l", "d">>>>

time_words ==
    <<<<"d", "e", "a", "d", "l", "i", "n", "e">>, <<"s", "c", "h", "e", "d", "u", "l", "e">>, <<"t", "i", "m", "e", "l", "i", "n", "e">>, <<"d", "a", "t", "e">>, <<"w", "h", "e", "n">>, <<"s", "o", "o", "n">>, <<"u", "p", "c", "o", "m", "i", "n", "g">>>>

fresh_words ==
    <<<<"2", "0", "2", "3">>, <<"2", "0", "2", "4">>, <<"2", "0", "2", "5">>, <<"r", "e", "c", "e", "n", "t", "l", "y">>, <<"j", "u", "s", "t">>, <<"n", "e", "w">>, <<"l", "a", "t", "e", "s", "t">>>>

evergreen_words ==
    <<<<"g", "u", "i", "d", "e">>, <<"t", "u", "t", "o", "r", "i", "a", "l">>, <<"h", "o", "w", " ", "t", "o">>, <<"b", "a", "s", "i", "c", "s">>, <<"f", "u", "n", "d", "a", "m", "e", "n", "t", "a", "l", "s">>, <<"i", "n", "t", "r", "o", "d", "u", "c", "t", "i", "o", "n">>>>

outdated_words ==
    <<<<"2", "0", "2", "0">>, <<"2", "0", "2", "1">>, <<"2", "0", "2", "2">>, <<"o", "l", "d">>, <<"p", "r", "e", "v", "i", "o", "u", "s">>, <<"f", "o", "r", "m", "e", "r">>>>

\* the words of the recency test of _generate_trend_insights
insight_recent_words == <<<<"r", "e", "c", "e", "n", "t">>, <<"l", "a", "t", "e", "s", "t">>, <<"n", "e", "w">>, <<"n", "o", "w">>>>

\* text = f"{title} {content}" of the lowered title and content
TitleAndContent(result) ==
    Lower(Get(result.title).s) \o <<" ">> \o Lower(Get(result.content).s)

\* the number of results whose title and content hold one of the words
CountMatching(results, words) ==
    Cardinality({i \in 1..Len(results) : ContainsAny(TitleAndContent(results[i]), words)})

_extract_temporal_patterns(results) ==
    [recent_indicators |-> CountMatching(results, recent_words),
     historical_references |-> CountMatching(results, historical_words),
     time_sensitive_content |-> CountMatching(results, time_words)]

\* result.get("content", "").lower() and result.get("title", "").lower()
\* raise AttributeError on None
_extract_temporal_patterns_raises(results) ==
    \E i \in 1..Len(results) : LowerRaises(results[i])

_analyze_freshness(results) ==
    [fresh_content |-> CountMatching(results, fresh_words),
     evergreen_content |-> CountMatching(results, evergreen_words),
     outdated_indicators |-> CountMatching(results, outdated_words)]

_generate_trend_insights(results, keywords) ==
    LET recent_count ==
            Cardinality({i \in 1..Len(results) :
                ContainsAny(Lower(Get(results[i].content).s), insight_recent_words)})
    IN  (IF 2 * recent_count > Len(results)
         THEN <<Message("Majority of results contain recent/timely information", <<>>)>>
         ELSE <<>>)
        \o (IF keywords # <<>>
            THEN <<Message("Trending topic: '{}' appears most frequently",
                           <<keywords[1].key>>)>>
            ELSE <<>>)

\* a list of entries as the list of {"topic": key, "score": count}
TopicScores(entries) ==
    [i \in 1..Len(entries) |-> [topic |-> entries[i].key, score |-> entries[i].value]]

\* the report of _analyze_trends, given its keyword_trends
TrendsReport(results, keyword_trends) ==
    [analysis_type |-> "trends",
     temporal_patterns |-> _extract_temporal_patterns(results),
     emerging_topics |-> TopicScores(keyword_trends),
     freshness_indicators |-> _analyze_freshness(results),
     trend_insights |-> _generate_trend_insights(results, keyword_trends)]

_analyze_trends(results) ==
    TrendsReport(results, MostCommon(Counter(_extract_keywords(results)), 15))

\* _extract_temporal_patterns is the first step of _analyze_trends
_analyze_trends_raises(results) == _extract_temporal_patterns_raises(results)

-----------------------------------------------------------------------------
(* Mode sources *)

credible_domains ==
    {<<"w", "i", "k", "i", "p", "e", "d", "i", "a", ".", "o", "r", "g">>, <<"g", "i", "t", "h", "u", "b", ".", "c", "o", "m">>, <<"s", "t", "a", "c", "k", "o", "v", "e", "r", "f", "l", "o", "w", ".", "c", "o", "m">>, <<"m", "e", "d", "i", "u", "m", ".", "c", "o", "m">>,
     <<"t", "e", "c", "h", "c", "r", "u", "n", "c", "h", ".", "c", "o", "m">>, <<"b", "b", "c", ".", "c", "o", "m">>, <<"c", "n", "n", ".", "c", "o", "m">>, <<"r", "e", "u", "t", "e", "r", "s", ".", "c", "o", "m">>, <<"a", "p", "n", "e", "w", "s", ".", "c", "o", "m">>,
     <<"n", "a", "t", "u", "r", "e", ".", "c", "o", "m">>, <<"s", "c", "i", "e", "n", "c", "e", ".", "o", "r", "g">>, <<"a", "r", "x", "i", "v", ".", "o", "r", "g">>, <<"i", "e", "e", "e", ".", "o", "r", "g">>, <<"a", "c", "m", ".", "o", "r", "g">>}

less_credible == {<<"c", "l", "i", "c", "k", "b", "a", "i", "t", ".", "c", "o", "m">>, <<"f", "a", "k", "e", "n", "e", "w", "s", ".", "c", "o", "m">>, <<"u", "n", "r", "e", "l", "i", "a", "b", "l", "e", "s", "o", "u", "r", "c", "e", ".", "c", "o", "m">>}

\* the largest value of a non-empty list of entries
MaxValue(entries) ==
    LET vs == {entries[i].value : i \in 1..Len(entries)}
    IN  CHOOSE v \in vs : \A w \in vs : w <= v

\* the five statistics of a non-empty list of domains, given its counts
DomainStatistics(domain_counts, total_domains) ==
    [total_domains |-> total_domains,
     unique_domains |-> Len(domain_counts),
     domain_concentration |-> Frac(MaxValue(domain_counts), total_domains),
     top_domains |-> MostCommonTuples(domain_counts, 10),
     domain_distribution |-> domain_counts]

\* {} for no domains, else the five statistics
_analyze_domain_statistics(domains) ==
    IF domains = <<>> THEN <<>>
    ELSE DomainStatistics(Counter(domains), Len(domains))

\* the score of one domain with the TLD rules tried before the two lists
CredibilityByTldFirst(domain) ==
    IF ContainsAny(domain, <<<<".", "e", "d", "u">>, <<".", "g", "o", "v">>, <<".", "o", "r", "g">>>>) THEN Literal(8)
    ELSE IF ContainsAny(domain, <<<<".", "c", "o", "m">>, <<".", "n", "e", "t">>, <<".", "c", "o">>>>) THEN Literal(6)
    ELSE IF domain \in credible_domains THEN Literal(9)
    ELSE IF domain \in less_credible THEN Literal(2)
    ELSE Literal(5)

\* the score of one domain: the body of the loop of _assess_domain_credibility
CredibilityOf(domain) ==
    IF domain \in credible_domains THEN Literal(9)
    ELSE IF domain \in less_credible THEN Literal(2)
    ELSE IF ContainsAny(domain, <<<<".", "e", "d", "u">>, <<".", "g", "o", "v">>, <<".", "o", "r", "g">>>>) THEN Literal(8)
    ELSE IF ContainsAny(domain, <<<<".", "c", "o", "m">>, <<".", "n", "e", "t">>, <<".", "c", "o">>>>) THEN Literal(6)
    ELSE Literal(5)

\* the scores of the keys of domain_counts, in their order
CredibilityScores(domain_counts) ==
    [i \in 1..Len(domain_counts) |->
        [key |-> domain_counts[i].key, value |-> CredibilityOf(domain_counts[i].key)]]

_assess_domain_credibility(domains) == CredibilityScores(Counter(domains))

\* the values of a list of entries, in order
Values(entries) == [i \in 1..Len(entries) |-> entries[i].value]

\* sum(count for count in counts), where the sum of the squares is meant
SumOfCounts(counts) == SeqSum(counts)

\* sum(count ** 2 for count in counts)
SumOfSquares(counts) == SeqSum([i \in 1..Len(counts) |-> counts[i] * counts[i]])

\* the three metrics of a non-empty list of domains, given its counts; the
\* quotients are exact, the rounding error of the float sum is not modelled
DiversityOfCounts(domain_counts, total) ==
    [diversity_score |->
        Frac(total * total - SumOfSquares(Values(domain_counts)), total * total),
     concentration_ratio |-> Frac(SeqSum(Values(MostCommon(domain_counts, 3))), total),
     unique_source_ratio |-> Frac(Len(domain_counts), total)]

\* the metrics of the extracted domains
DiversityOfDomains(domains) ==
    IF domains = <<>>
    THEN [diversity_score |-> Frac(0, 1), concentration_ratio |-> Frac(0, 1)]
    ELSE DiversityOfCounts(Counter(domains), Len(domains))

_calculate_source_diversity(results) == DiversityOfDomains(_extract_domains(results))

\* the recommendations, given the domains of high and low credibility
SourceRecommendations(credibility_scores, high_credibility, low_credibility) ==
        (IF high_credibility # <<>>
         THEN <<Message("High credibility sources: {}", Take(high_credibility, 3))>>
         ELSE <<>>)
        \o (IF low_credibility # <<>>
            THEN <<Message("Consider verifying information from: {}", low_credibility)>>
            ELSE <<>>)
        \o (IF high_credibility = <<>> /\ credibility_scores # <<>>
            THEN <<Message("Mixed source credibility - cross-verification recommended",
                           <<>>)>>
            ELSE <<>>)

_generate_source_recommendations(credibility_scores) ==
    SourceRecommendations(
        credibility_scores,
        Keys(SelectSeq(credibility_scores, LAMBDA e : FloatLeq(Literal(8), e.value))),
        Keys(SelectSeq(credibility_scores, LAMBDA e : FloatLess(e.value, Literal(4)))))

\* the report of _analyze_sources, given its credibility_scores
SourcesReportOfScores(results, domains, credibility_scores) ==
    [analysis_type |-> "sources",
     domain_distribution |-> _analyze_domain_statistics(domains),
     credibility_scores |-> credibility_scores,
     diversity_metrics |-> _calculate_source_diversity(results),
     source_recommendations |-> _generate_source_recommendations(credibility_scores)]

\* the report of _analyze_sources, given its extracted domains
SourcesReport(results, domains) ==
    SourcesReportOfScores(results, domains, _assess_domain_credibility(domains))

_analyze_sources(results) == SourcesReport(results, _extract_domains(results))

\* _analyze_sources reads only the url, through result.get("url", "") and a
\* truth test: no record field makes it raise
_analyze_sources_raises(results) == FALSE

-----------------------------------------------------------------------------
(* Mode keywords *)

\* the lists of the clusters dict before the filter, in insertion order of
\* their cluster key keyword[:4]
\* the clusters dict of the given cluster keys: each key with the keywords
\* that start with it
ClustersOf(names, cluster_keys) ==
    [c \in 1..Len(cluster_keys) |->
        [key |-> cluster_keys[c],
         value |-> SelectSeq(names, LAMBDA k : Take(k, 4) = cluster_keys[c])]]

\* the clusters of a list of keywords, those of one keyword left out
ClustersOfNames(names) ==
    SelectSeq(ClustersOf(names, FirstSeen([i \in 1..Len(names) |-> Take(names[i], 4)])),
              LAMBDA e : Len(e.value) > 1)

_cluster_keywords(keywords) == ClustersOfNames(Keys(keywords))

\* round(x, 3) of x = n / d >= 0, in thousandths: the nearest thousandth, a
\* tie going to the even one (the rounding error of the float x is not
\* modelled)
Round3(n, d) ==
    LET q == (1000 * n) \div d
        r == (1000 * n) % d
    IN  IF 2 * r > d \/ (2 * r = d /\ q % 2 = 1) THEN q + 1 ELSE q

\* importance of one keyword: normalized_freq * 0.7 + doc_freq * 0.3, rounded
\* to 3 places, as a fraction of 1000
ImportanceOf(freq, max_freq, total_results) ==
    Frac(Round3(7 * freq * total_results + 3 * freq * max_freq,
                10 * max_freq * total_results),
         1000)

\* the importance of each keyword, given max_freq
ImportanceScores(keywords, max_freq, total_results) ==
    [i \in 1..Len(keywords) |->
        [key |-> keywords[i].key,
         value |-> ImportanceOf(keywords[i].value, max_freq, total_results)]]

_calculate_keyword_importance(keywords, total_results) ==
    IF keywords = <<>> \/ total_results = 0 THEN <<>>
    ELSE ImportanceScores(keywords, MaxValue(keywords), total_results)

\* max(keywords.items(), key=lambda x: x[1])[0]: the first key of largest value
TopKeyword(keywords) ==
    keywords[CHOOSE i \in 1..Len(keywords) :
                /\ \A j \in 1..Len(keywords) : keywords[j].value <= keywords[i].value
                /\ \A j \in 1..(i - 1) : keywords[j].value < keywords[i].value].key

\* an entry of an insight list with a number formatted into it
MessageCount(text, count) == [text |-> text, args |-> <<>>, count |-> count]

_generate_keyword_insights(keywords, clusters) ==
    (IF keywords # <<>>
     THEN <<Message("Most prominent keyword: '{}'", <<TopKeyword(keywords)>>)>>
     ELSE <<>>)
    \o (IF clusters # <<>>
        THEN <<MessageCount("Identified {} keyword clusters showing related topics",
                            Len(clusters))>>
        ELSE <<>>)
    \o (IF Len(keywords) > 20
        THEN <<Message("High keyword diversity suggests broad topic coverage", <<>>)>>
        ELSE IF Len(keywords) < 5
        THEN <<Message("Low keyword diversity indicates focused topic coverage", <<>>)>>
        ELSE <<>>)

\* the report of _analyze_keywords, given its filtered_keywords and clusters
KeywordsReportOfClusters(results, filtered_keywords, keyword_clusters) ==
    [analysis_type |-> "keywords",
     keyword_frequency |-> filtered_keywords,
     keyword_clusters |-> keyword_clusters,
     importance_scores |-> _calculate_keyword_importance(filtered_keywords, Len(results)),
     keyword_insights |-> _generate_keyword_insights(filtered_keywords, keyword_clusters)]

\* the report of _analyze_keywords, given its filtered_keywords
KeywordsReport(results, filtered_keywords) ==
    KeywordsReportOfClusters(results, filtered_keywords,
                             _cluster_keywords(filtered_keywords))

\* _analyze_keywords keeping the keywords that occur more than min_freq
\* times, where at least min_freq times is meant
_analyze_keywords_above(results, min_freq) ==
    KeywordsReport(results,
                   SelectSeq(Counter(_extract_keywords(results)),
                             LAMBDA e : e.value > min_freq))

_analyze_keywords(results, min_freq) ==
    KeywordsReport(results,
                   SelectSeq(Counter(_extract_keywords(results)),
                             LAMBDA e : e.value >= min_freq))

\* _extract_keywords is the first step of _analyze_keywords
_analyze_keywords_raises(results) == _extract_keywords_raises(results)

-----------------------------------------------------------------------------
(* json.loads(json.dumps(report)) *)

\* json.dumps of a tuple or of a list: a JSON array of the items
JsonDumpsPair(pair) == [json |-> "array", items |-> pair.items]

\* json.dumps of a list of tuples: a JSON array of JSON arrays
JsonDumpsPairs(pairs) == [i \in 1..Len(pairs) |-> JsonDumpsPair(pairs[i])]

\* json.dumps(analysis_results): the JSON document, which keeps a str, an
\* int, a float, a list and a dict as they are and holds an array for a tuple
JsonDumps(report) ==
    IF "top_domains" \in DOMAIN report
    THEN [report EXCEPT !.top_domains = JsonDumpsPairs(@)]
    ELSE IF "domain_distribution" \in DOMAIN report
            /\ DOMAIN report.domain_distribution # {}
    THEN [report EXCEPT !.domain_distribution.top_domains = JsonDumpsPairs(@)]
    ELSE report

\* json.loads of a JSON array: a list
JsonLoadsPair(array) == PyList(array.items[1], array.items[2])

\* a list of pairs, encoded and decoded
JsonRoundTripPairs(pairs) ==
    [i \in 1..Len(pairs) |-> JsonLoadsPair(JsonDumpsPair(pairs[i]))]

\* the report of a mode, encoded and decoded: a str, an int, a float, a list
\* and a dict with str keys decode to an equal value of the same type, a
\* tuple decodes to a list
JsonRoundTrip(mode, report) ==
    CASE mode = "summary" ->
            [report EXCEPT !.top_domains = JsonRoundTripPairs(@)]
      [] mode = "sources" ->
            IF DOMAIN report.domain_distribution = {} THEN report
            ELSE [report EXCEPT
                     !.domain_distribution.top_domains = JsonRoundTripPairs(@)]
      [] OTHER -> report

-----------------------------------------------------------------------------
(* Mode relevance *)

\* the tenths that _calculate_relevance_score adds to the score, in the
\* order of its tests
RelevanceSteps(title, content, url) ==
    (IF Truthy(title) THEN <<3>> ELSE <<>>)
    \o (IF Len(content.s) > 100 THEN <<2>> ELSE <<>>)
    \o (IF Len(content.s) > 300 THEN <<2>> ELSE <<>>)
    \o (IF Truthy(url) /\ (StartsWith(url.s, <<"h", "t", "t", "p", ":", "/", "/">>) \/ StartsWith(url.s, <<"h", "t", "t", "p", "s", ":", "/", "/">>))
        THEN <<1>> ELSE <<>>)
    \o (IF Truthy(content) /\ Cardinality(SplitSet(content.s)) > 20 THEN <<2>> ELSE <<>>)

_calculate_relevance_score(result) ==
    FloatMin1(FloatSumOfTenths(
        RelevanceSteps(Get(result.title), Get(result.content), Get(result.url))))

\* len(content) raises TypeError when content is None
_calculate_relevance_score_raises(result) == Get(result.content).tag = "none"

\* result.get("title", ""), where the content is meant
TitleOf(result) == Get(result.title)

\* content = result.get("content", "")
ContentOf(result) == Get(result.content)

\* the tenths that _assess_content_quality adds to the score of a non-empty
\* content, in the order of its tests
QualitySteps(content) ==
    (IF 50 <= Len(content) /\ Len(content) <= 1000 THEN <<3>>
     ELSE IF 1000 < Len(content) /\ Len(content) <= 3000 THEN <<4>>
     ELSE <<>>)
    \o (IF SplitDotCount(content) > 3 THEN <<2>> ELSE <<>>)
    \o (IF SplitCount(content) > 20 THEN <<2>> ELSE <<>>)
    \o (IF \E i \in 1..Len(content) : content[i] \in {",", ";", ":", "-"}
        THEN <<1>> ELSE <<>>)

\* the quality score of a content
QualityOfContent(content) ==
    IF ~Truthy(content) THEN Literal(0)
    ELSE FloatMin1(FloatSumOfTenths(QualitySteps(content.s)))

_assess_content_quality(result) == QualityOfContent(ContentOf(result))

\* the distribution with a score equal to a threshold counted in the bucket
\* below it
_calculate_relevance_distribution_above(scores) ==
    [high_relevance |->
        Cardinality({i \in 1..Len(scores) : FloatLess(Literal(8), scores[i])}),
     medium_relevance |->
        Cardinality({i \in 1..Len(scores) :
            ~FloatLess(Literal(8), scores[i]) /\ FloatLess(Literal(5), scores[i])}),
     low_relevance |->
        Cardinality({i \in 1..Len(scores) : ~FloatLess(Literal(5), scores[i])})]

_calculate_relevance_distribution(scores) ==
    [high_relevance |->
        Cardinality({i \in 1..Len(scores) : FloatLeq(Literal(8), scores[i])}),
     medium_relevance |->
        Cardinality({i \in 1..Len(scores) :
            ~FloatLeq(Literal(8), scores[i]) /\ FloatLeq(Literal(5), scores[i])}),
     low_relevance |->
        Cardinality({i \in 1..Len(scores) : ~FloatLeq(Literal(5), scores[i])})]

\* sum(scores) / len(scores) if scores else 0, reported as the exact quotient
\* of the tenths: the rounding of the float sum and quotient, below 1e-15,
\* is left out of the reported value
Average(scores) ==
    IF scores = <<>> THEN Frac(0, 1)
    ELSE Frac(SeqSum([i \in 1..Len(scores) |-> scores[i].tenths]), 10 * Len(scores))

\* the insight on one average: above 0.7, below 0.4, or none; the float sum
\* and quotient are compared exactly
InsightOfTotal(total, n, high, low) ==
    IF QuotientAbove(total, n, Literal(7)) THEN <<Message(high, <<>>)>>
    ELSE IF QuotientBelow(total, n, Literal(4)) THEN <<Message(low, <<>>)>>
    ELSE <<>>

\* the insight on the average of a list of scores, none for an empty list
AverageInsight(scores, high, low) ==
    IF scores = <<>> THEN <<>>
    ELSE InsightOfTotal(FloatSumFrom(scores, Literal(0)), Len(scores), high, low)

_generate_quality_insights(relevance_scores, quality_metrics) ==
    AverageInsight(relevance_scores,
                   "High average relevance across results",
                   "Low average relevance - consider refining search query")
    \o AverageInsight(quality_metrics,
                      "High content quality observed in results",
                      "Variable content quality - verify critical information")

\* the report of _analyze_relevance, given the two lists of scores
RelevanceReport(relevance_scores, quality_metrics) ==
    [analysis_type |-> "relevance",
     relevance_scores |-> relevance_scores,
     quality_metrics |-> quality_metrics,
     average_relevance |-> Average(relevance_scores),
     average_quality |-> Average(quality_metrics),
     relevance_distribution |-> _calculate_relevance_distribution(relevance_scores),
     quality_insights |-> _generate_quality_insights(relevance_scores, quality_metrics)]

_analyze_relevance(results) ==
    RelevanceReport([i \in 1..Len(results) |-> _calculate_relevance_score(results[i])],
                    [i \in 1..Len(results) |-> _assess_content_quality(results[i])])

\* the loop of _analyze_relevance calls _calculate_relevance_score first
_analyze_relevance_raises(results) ==
    \E i \in 1..Len(results) : _calculate_relevance_score_raises(results[i])

-----------------------------------------------------------------------------
(* analyze_search_results *)

\* search_results[:] where search_results[: n] is meant
NoSlice(items, n) == items

\* search_results[: n - calls]: a budget of records that earlier calls have
\* used up, where the slice by max_results alone is meant
SliceOfRemainingBudget(items, n) ==
    IF n - calls >= 0 THEN Take(items, n - calls)
    ELSE IF Len(items) + n - calls > 0 THEN SubSeq(items, 1, Len(items) + n - calls)
    ELSE <<>>

\* search_results[: n] of a Python list: the first n items for n >= 0, all
\* but the last -n items for n < 0
SlicePrefix(items, n) ==
    IF n >= 0 THEN Take(items, n)
    ELSE IF Len(items) + n > 0 THEN SubSeq(items, 1, Len(items) + n)
    ELSE <<>>

\* del search_results[n:], where a slice that copies is meant
DeletedInPlace(items, n) == SlicePrefix(items, n)

\* the caller's list after results = search_results[: self.max_results]: the
\* slice is a new list, the list passed in keeps its items
ArgumentAfterSlice(items, n) == items

\* a returned value
Returned(value) == [kind |-> "return", value |-> value]

\* return {"error": text + arg} where raise is meant
ReturnedError(exc, text, arg) == Returned([error |-> text, arg |-> arg])

\* raise exc(text + arg)
Raised(exc, text, arg) == [kind |-> "raise", exc |-> exc, text |-> text, arg |-> arg]

\* the value or exception of one mode routine
ModeOutcome(raises, exc, report) ==
    IF raises THEN Raised(exc, "'NoneType' object", "") ELSE Returned(report)

\* items is None, where not items is meant
IsNone(items) == FALSE

\* not items, for a list
IsFalsy(items) == items = <<>>

\* the dispatcher with the mode checked before the list: an unrecognized mode
\* raises even for an empty list
analyze_mode_first(results_arg, type_arg, self_max_results, self_min_keyword_freq) ==
    IF type_arg \notin {"summary", "trends", "sources", "keywords", "relevance"}
    THEN Raised("ValueError", "Unsupported analysis type: ", type_arg)
    ELSE
    IF IsFalsy(results_arg)
    THEN Returned([error |-> "No search results provided for analysis"])
    ELSE LET results == SlicePrefix(results_arg, self_max_results)
         IN  CASE type_arg = "summary" ->
                    ModeOutcome(_analyze_summary_raises(results), "AttributeError",
                                _analyze_summary(results))
               [] type_arg = "trends" ->
                    ModeOutcome(_analyze_trends_raises(results), "AttributeError",
                                _analyze_trends(results))
               [] type_arg = "sources" ->
                    ModeOutcome(_analyze_sources_raises(results), "AttributeError",
                                _analyze_sources(results))
               [] type_arg = "keywords" ->
                    ModeOutcome(_analyze_keywords_raises(results), "AttributeError",
                                _analyze_keywords(results, self_min_keyword_freq))
               [] type_arg = "relevance" ->
                    ModeOutcome(_analyze_relevance_raises(results), "TypeError",
                                _analyze_relevance(results))
               [] OTHER ->
                    Raised("ValueError", "Unsupported analysis type: ", type_arg)

analyze_search_results(results_arg, type_arg, self_max_results, self_min_keyword_freq) ==
    IF IsFalsy(results_arg)
    THEN Returned([error |-> "No search results provided for analysis"])
    ELSE LET results == SlicePrefix(results_arg, self_max_results)
         IN  CASE type_arg = "summary" ->
                    ModeOutcome(_analyze_summary_raises(results), "AttributeError",
                                _analyze_summary(results))
               [] type_arg = "trends" ->
                    ModeOutcome(_analyze_trends_raises(results), "AttributeError",
                                _analyze_trends(results))
               [] type_arg = "sources" ->
                    ModeOutcome(_analyze_sources_raises(results), "AttributeError",
                                _analyze_sources(results))
               [] type_arg = "keywords" ->
                    ModeOutcome(_analyze_keywords_raises(results), "AttributeError",
                                _analyze_keywords(results, self_min_keyword_freq))
               [] type_arg = "relevance" ->
                    ModeOutcome(_analyze_relevance_raises(results), "TypeError",
                                _analyze_relevance(results))
               [] OTHER ->
                    Raised("ValueError", "Unsupported analysis type: ", type_arg)

-----------------------------------------------------------------------------
(* The analyzer as a state machine: one instance, called by one caller *)

\* no call in progress: no result and no mode argument
NoOutcome == [kind |-> "none"]

NoType == ""

\* the calls of one instance that are counted: later ones count as MaxCalls
MaxCalls == 2

\* SearXNGServer(): no tool call has reached the server
NoTasks == {}

NoCall == [state |-> "none"]

NewServer ==
    /\ tasks = NoTasks
    /\ handled = NoCall
    /\ web = NoCall

\* SearchResultAnalyzer(): lines 45-54
NewAnalyzer ==
    /\ max_results = DefaultMaxResults
    /\ min_keyword_freq = DefaultMinKeywordFreq
    /\ stop_words = self_stop_words
    /\ calls = 0
    /\ pc = "idle"
    /\ analysis_type = NoType
    /\ outcome = NoOutcome

\* SearchResultAnalyzer() and a caller holding a list of records
Init ==
    /\ search_results \in RecordLists
    /\ NewAnalyzer
    /\ NewServer

\* analyzer.max_results = m, between two calls
SetMaxResults(m) ==
    /\ pc = "idle"
    /\ max_results' = m
    /\ UNCHANGED <<search_results, min_keyword_freq, pc, analysis_type, outcome,
                   stop_words, calls, tasks, handled, web>>

\* the caller builds the list of its next call from the one it holds: it
\* appends a record or drops the last one
ChangeRecords(pool) ==
    /\ pc = "idle"
    /\ \/ \E r \in pool :
            /\ Len(search_results) < MaxLen
            /\ search_results' = Append(search_results, r)
       \/ /\ search_results # <<>>
          /\ search_results' = Take(search_results, Len(search_results) - 1)
    /\ UNCHANGED <<max_results, min_keyword_freq, pc, analysis_type, outcome,
                   stop_words, calls, tasks, handled, web>>

\* analyzer.analyze_search_results(search_results, t)
Analyze(t) ==
    /\ pc = "idle"
    /\ analysis_type' = t
    /\ outcome' = analyze_search_results(search_results, t, max_results, min_keyword_freq)
    /\ search_results' = ArgumentAfterSlice(search_results, max_results)
    /\ calls' = IF calls < MaxCalls THEN calls + 1 ELSE calls
    /\ pc' = "returned"
    /\ UNCHANGED <<max_results, min_keyword_freq, stop_words, tasks, handled, web>>

\* the caller has taken the result; the analyzer is ready for the next call
Return ==
    /\ pc = "returned"
    /\ pc' = "idle"
    /\ outcome' = NoOutcome
    /\ analysis_type' = NoType
    /\ UNCHANGED <<search_results, max_results, min_keyword_freq, stop_words, calls,
                   tasks, handled, web>>

Next ==
    \/ \E m \in MaxResultsArgs : SetMaxResults(m)
    \/ ChangeRecords(RecordPool)
    \/ \E t \in AnalysisTypes : Analyze(t)
    \/ Return

Spec == Init /\ [][Next]_vars

\* SearchResultAnalyzer() and a caller holding a list of records that lack keys
InitPartial ==
    /\ search_results \in PartialLists
    /\ NewAnalyzer
    /\ NewServer

NextPartial ==
    \/ \E m \in MaxResultsArgs : SetMaxResults(m)
    \/ ChangeRecords(PartialPool)
    \/ \E t \in AnalysisTypes : Analyze(t)
    \/ Return

SpecPartial == InitPartial /\ [][NextPartial]_vars

-----------------------------------------------------------------------------
(* Properties of analyze_search_results *)

\* the five recognized modes
Modes == {"summary", "trends", "sources", "keywords", "relevance"}

\* a call has returned a value (it did not raise)
HasReturned == pc = "returned" /\ outcome.kind = "return"

\* a call in the given mode has returned a report and not the error mapping
HasReport(mode) ==
    HasReturned /\ analysis_type = mode /\ search_results # <<>>

\* a call has raised ValueError("Unsupported analysis type: ...")
RaisedUnsupported ==
    /\ pc = "returned"
    /\ outcome.kind = "raise"
    /\ outcome.exc = "ValueError"
    /\ outcome.text = "Unsupported analysis type: "

\* the records a call analyses when max_results is positive: the first
\* max_results of them, all of them when there are fewer
FirstRecords ==
    [i \in 1..(IF Len(search_results) < max_results THEN Len(search_results)
               ELSE max_results) |-> search_results[i]]

\* C1: in each of the five modes a call with an empty record list does not
\* raise and returns the mapping with the single key "error" and the value
\* "No search results provided for analysis"
C1_EmptyInputError ==
    (pc = "returned" /\ search_results = <<>> /\ analysis_type \in Modes)
        => outcome = Returned([error |-> "No search results provided for analysis"])

\* C1, reached: a keywords call with an empty list has returned
C1_Witness ==
    /\ HasReturned
    /\ search_results = <<>>
    /\ analysis_type = "keywords"
    /\ DOMAIN outcome.value = {"error"}

C3_NullRecordAnalysed ==
    (/\ pc = "returned"
     /\ analysis_type \in Modes
     /\ rNull \in Range(search_results)
     /\ Range(search_results) # {rNull}
     /\ max_results >= Len(search_results))
        => /\ outcome.kind = "return"
           /\ analysis_type = "summary" =>
                outcome.value.metrics.total_results = Len(search_results)

\* C4: when more records are given than a positive max_results allows, the
\* summary report counts max_results records and is the summary of the first
\* max_results records alone
C4_SummaryOfFirstRecords ==
    (HasReport("summary") /\ max_results > 0 /\ Len(search_results) > max_results)
        => /\ outcome.value.metrics.total_results = max_results
           /\ outcome.value = _analyze_summary(FirstRecords)

\* C4, reached: a summary of three records under max_results = 2
C4_Witness ==
    /\ HasReport("summary")
    /\ max_results = 2
    /\ Len(search_results) = 3
    /\ search_results[3] # search_results[2]
    /\ outcome.value.metrics.total_results = 2

\* the number of records a returned summary or relevance report was made from
ProcessedCount ==
    IF analysis_type = "summary" THEN outcome.value.metrics.total_results
    ELSE Len(outcome.value.relevance_scores)

\* C5: whatever integer max_results holds, a call processes no more than
\* max_results records: at most max_results of them when that is positive,
\* and none when it is zero or negative
C5_ProcessedWithinMaxResults ==
    (HasReport("summary") \/ HasReport("relevance"))
        => ProcessedCount <= (IF max_results > 0 THEN max_results ELSE 0)

\* C6: the domain_diversity of a summary report lies in [0,1] and is the
\* number of distinct extracted domains over the number of records after
\* truncation, whenever truncation leaves a record; it is then 1 when these
\* records are on pairwise distinct domains
C6_DomainDiversity ==
    HasReport("summary")
        => LET records == SlicePrefix(search_results, max_results)
               domains == Flatten([i \in 1..Len(records) |-> DomainsOfResult(records[i])])
               distinct == Cardinality({domains[i] : i \in 1..Len(domains)})
               diversity == outcome.value.metrics.domain_diversity
           IN  /\ 0 <= diversity.num /\ diversity.num <= diversity.den
               /\ Len(records) > 0
                     => diversity.num * Len(records) = distinct * diversity.den
               /\ (Len(records) > 0 /\ Len(domains) = Len(records)
                      /\ distinct = Len(records))
                     => diversity.num = diversity.den

\* C6, reached: a summary of three records on two domains
C6_Witness ==
    /\ HasReport("summary")
    /\ outcome.value.metrics.total_results = 3
    /\ outcome.value.metrics.unique_domains = 2
    /\ outcome.value.metrics.domain_diversity = Frac(2, 3)

\* C7: every credibility score of a sources report lies in [0,1]; a domain of
\* the allow-list scores 0.9 and a domain of the deny-list 0.2, whatever its
\* TLD; a domain of neither list that ends in .gov scores 0.8
C7_CredibilityScores ==
    /\ \A d \in credible_domains : CredibilityOf(d) = Literal(9)
    /\ \A d \in less_credible : CredibilityOf(d) = Literal(2)
    /\ HasReport("sources") =>
          \A i \in 1..Len(outcome.value.credibility_scores) :
              LET domain == outcome.value.credibility_scores[i].key
                  score == outcome.value.credibility_scores[i].value
              IN  /\ FloatLeq(Literal(0), score) /\ FloatLeq(score, Literal(10))
                  /\ domain \in credible_domains => score = Literal(9)
                  /\ domain \in less_credible => score = Literal(2)
                  /\ (/\ domain \notin credible_domains
                      /\ domain \notin less_credible
                      /\ EndsWith(domain, <<".", "g", "o", "v">>))
                        => score = Literal(8)

\* C7, reached: a sources report that scores github.com, fakenews.com and
\* nasa.gov
C7_Witness ==
    /\ HasReport("sources")
    /\ {outcome.value.credibility_scores[i].key :
            i \in 1..Len(outcome.value.credibility_scores)}
         = {Lower(Netloc(rFake.url.s)), Lower(Netloc(rGov.url.s)),
            Drop(Lower(Netloc(rGithub.url.s)), 4)}

\* C8: in a relevance report every relevance score and every quality score
\* lies in [0,1], and a record with empty or absent content has quality 0
C8_ScoresInRange ==
    HasReport("relevance")
        => \A i \in 1..Len(SlicePrefix(search_results, max_results)) :
              LET relevance == outcome.value.relevance_scores[i]
                  quality == outcome.value.quality_metrics[i]
              IN  /\ FloatLeq(Literal(0), relevance) /\ FloatLeq(relevance, Literal(10))
                  /\ FloatLeq(Literal(0), quality) /\ FloatLeq(quality, Literal(10))
                  /\ search_results[i].content \in {Absent, Str(<<>>)}
                        => quality = Literal(0)

\* C8, reached: a relevance report on a record without content that has a
\* title, a record with empty content and a record of non-zero quality
C8_Witness ==
    /\ HasReport("relevance")
    /\ search_results = <<rBadUrl, rGov, rLong>>
    /\ Len(outcome.value.quality_metrics) = 3
    /\ FloatLess(Literal(0), outcome.value.quality_metrics[3])

\* C9: every value of importance_scores of a keywords report lies in [0,1]
C9_ImportanceInRange ==
    HasReport("keywords")
        => \A i \in 1..Len(outcome.value.importance_scores) :
              LET importance == outcome.value.importance_scores[i].value
              IN  0 <= importance.num /\ importance.num <= importance.den

\* C10: the report of every mode on a non-empty batch equals the report
\* encoded to JSON and decoded again
C10_JsonRoundTrip ==
    (HasReturned /\ analysis_type \in Modes /\ search_results # <<>>)
        => JsonRoundTrip(analysis_type, outcome.value) = outcome.value

-----------------------------------------------------------------------------
(* Properties of the analyzer across calls *)

\* C11: a step in which a call returns or raises leaves the list passed in
\* with all its records, and leaves max_results, min_keyword_freq and the
\* stop words of the instance as they were
C11_AnalyzeFrame ==
    [][(pc = "idle" /\ pc' = "returned")
          => /\ search_results' = search_results
             /\ max_results' = max_results
             /\ min_keyword_freq' = min_keyword_freq
             /\ stop_words' = stop_words]_vars

\* C11, reached: a keywords call has returned a report on the first record of
\* a list that still holds three records
C11_Witness ==
    /\ HasReport("keywords")
    /\ max_results = 1
    /\ Len(search_results) = 3
    /\ stop_words = self_stop_words

-----------------------------------------------------------------------------
(* Properties of the analyzer on records that lack keys *)

\* the records a call analyses
Analysed == SlicePrefix(search_results, max_results)

\* how many of the analysed records are the record r
TimesAnalysed(r) == Cardinality({i \in 1..Len(Analysed) : Analysed[i] = r})

\* the count a list of entries or of pairs holds for a key, 0 for none
FrequencyOf(keyword, top_keywords) ==
    SeqSum([i \in 1..Len(top_keywords) |->
               IF top_keywords[i].keyword = keyword THEN top_keywords[i].frequency ELSE 0])

CountOfDomain(domain, top_domains) ==
    SeqSum([i \in 1..Len(top_domains) |->
               IF top_domains[i].items[1] = domain THEN top_domains[i].items[2] ELSE 0])

\* C17: on records none of whose fields is None, some of them lacking keys,
\* no mode raises; in a summary the record without a url key adds its two
\* occurrences of "python" to the keywords and nothing to the domains, and the
\* record with only a url key adds its domain; a sources report scores the
\* domain of the record with only a url key
C17_MissingKeys ==
    (pc = "returned" /\ analysis_type \in Modes /\ search_results # <<>>
       /\ Range(search_results) \subseteq PartialPool)
        => /\ outcome.kind = "return"
           /\ analysis_type = "summary" =>
                /\ FrequencyOf(<<"p", "y", "t", "h", "o", "n">>, outcome.value.top_keywords)
                      = 2 * TimesAnalysed(rNoUrl)
                /\ CountOfDomain(<<"x", ".", "e", "d", "u", ".", "i", "o">>, outcome.value.top_domains)
                      = TimesAnalysed(rOnlyUrl)
                /\ CountOfDomain(<<"d", "o", "c", "s", ".", "p", "y", "t", "h", "o", "n", ".", "o", "r", "g">>, outcome.value.top_domains)
                      = TimesAnalysed(rLong)
                /\ outcome.value.metrics.unique_domains
                      = Cardinality(Range(Analysed) \ {rNoUrl})
           /\ (analysis_type = "sources" /\ TimesAnalysed(rOnlyUrl) > 0) =>
                \E i \in 1..Len(outcome.value.credibility_scores) :
                    outcome.value.credibility_scores[i].key = <<"x", ".", "e", "d", "u", ".", "i", "o">>

\* C17, reached: a summary of the record without a url key, the record with
\* only a url key and a complete record
C17_Witness ==
    /\ HasReport("summary")
    /\ search_results = <<rNoUrl, rOnlyUrl, rLong>>
    /\ max_results > 2
    /\ outcome.value.metrics.unique_domains = 2
    /\ FrequencyOf(<<"p", "y", "t", "h", "o", "n">>, outcome.value.top_keywords) = 2

\* the score the TLD rules give a domain by its ending
ScoreByEnding(domain) ==
    IF \E tld \in {<<".", "e", "d", "u">>, <<".", "g", "o", "v">>, <<".", "o", "r", "g">>} : EndsWith(domain, tld) THEN Literal(8)
    ELSE IF \E tld \in {<<".", "c", "o", "m">>, <<".", "n", "e", "t">>, <<".", "c", "o">>} : EndsWith(domain, tld) THEN Literal(6)
    ELSE Literal(5)

\* C20: in a sources report a domain of neither list scores 0.8 exactly when
\* it ends in .edu, .gov or .org, otherwise 0.6 exactly when it ends in .com,
\* .net or .co, and otherwise 0.5
C20_ScoreByTldEnding ==
    HasReport("sources")
        => \A i \in 1..Len(outcome.value.credibility_scores) :
              LET domain == outcome.value.credibility_scores[i].key
              IN  (domain \notin credible_domains /\ domain \notin less_credible)
                    => outcome.value.credibility_scores[i].value = ScoreByEnding(domain)

-----------------------------------------------------------------------------
(* The tool analyze_search_results of the MCP server                       *)
(* (src/src/searxng_search_mcp/server_main.py, class SearXNGServer).  The   *)
(* server holds one analyzer; every tool call runs as a task of one event   *)
(* loop.  A str of the server is a sequence of characters.                  *)

\* one key of the arguments of a tool call: given with a value, or left out
Argument(given, value) == [given |-> given, value |-> value]

\* arguments.get(key, default)
ArgumentOr(argument, default) == IF argument.given THEN argument.value ELSE default

\* the arguments a client may pass to analyze_search_results
AnalyzeArguments ==
    [search_results :
        {Argument(FALSE, <<>>), Argument(TRUE, <<>>),
         Argument(TRUE, <<rGithub, rFake, rNull>>)},
     analysis_type : {Argument(FALSE, ""), Argument(TRUE, "invalid_type")},
     max_results : {Argument(FALSE, 0), Argument(TRUE, 1), Argument(TRUE, 2)}]

\* the tool calls that wait to run at one time
MaxTasks == 2

\* types.TextContent(type="text", text=text)
TextContent(text) == [type |-> "text", text |-> text]

\* types.TextContent(type="text", text=json.dumps(...)): the text is the
\* encoding of a JSON document
JsonTextContent(document) == [type |-> "text", json |-> document]

\* the characters of a mode string
Characters(string) ==
    CASE string = "invalid_type" -> <<"i", "n", "v", "a", "l", "i", "d", "_", "t", "y", "p", "e">>
      [] string = "summary" -> <<"s", "u", "m", "m", "a", "r", "y">>
      [] string = "" -> <<>>

\* str(e) of what the analyzer raises
StrOfError(e) ==
    CASE e.exc = "ValueError" -> <<"U", "n", "s", "u", "p", "p", "o", "r", "t", "e", "d", " ", "a", "n", "a", "l", "y", "s", "i", "s", " ", "t", "y", "p", "e", ":", " ">> \o Characters(e.arg)
      [] e.exc = "AttributeError" -> <<"'", "N", "o", "n", "e", "T", "y", "p", "e", "'", " ", "o", "b", "j", "e", "c", "t", " ", "h", "a", "s", " ", "n", "o", " ", "a", "t", "t", "r", "i", "b", "u", "t", "e", " ", "'", "l", "o", "w", "e", "r", "'">>
      [] e.exc = "TypeError" -> <<"o", "b", "j", "e", "c", "t", " ", "o", "f", " ", "t", "y", "p", "e", " ", "'", "N", "o", "n", "e", "T", "y", "p", "e", "'", " ", "h", "a", "s", " ", "n", "o", " ", "l", "e", "n", "(", ")">>

\* the except clause for Exception alone, without the one for ValueError
UnexpectedErrorPrefix(exc) == <<"E", "r", "r", "o", "r", " ", "p", "e", "r", "f", "o", "r", "m", "i", "n", "g", " ", "a", "n", "a", "l", "y", "s", "i", "s", ":", " ">>

\* except ValueError ... except Exception: the fixed part of the message
AnalysisErrorPrefix(exc) ==
    IF exc = "ValueError" THEN <<"A", "n", "a", "l", "y", "s", "i", "s", " ", "c", "o", "n", "f", "i", "g", "u", "r", "a", "t", "i", "o", "n", " ", "e", "r", "r", "o", "r", ":", " ">>
    ELSE <<"E", "r", "r", "o", "r", " ", "p", "e", "r", "f", "o", "r", "m", "i", "n", "g", " ", "a", "n", "a", "l", "y", "s", "i", "s", ":", " ">>

\* what the handler returns for what the analyzer returned or raised
AnalysisResponse(result) ==
    IF result.kind = "return" THEN <<JsonTextContent(JsonDumps(result.value))>>
    ELSE <<TextContent(AnalysisErrorPrefix(result.exc) \o StrOfError(result))>>

\* if "search_results" not in arguments, where not search_results is meant
SearchResultsKeyMissing(arguments) == ~arguments.search_results.given

\* search_results = arguments.get("search_results", []); if not search_results
SearchResultsRequired(arguments) ==
    IsFalsy(ArgumentOr(arguments.search_results, <<>>))

\* arguments.get("max_results", self.analyzer.max_results), where the
\* default 10 is meant
MaxResultsOrCurrent(arguments) == ArgumentOr(arguments.max_results, max_results)

\* max_results = arguments.get("max_results", 10)
MaxResultsArgument(arguments) == ArgumentOr(arguments.max_results, DefaultMaxResults)

\* the field as the analysis reads it had the handler suspended after its
\* write: the value another waiting call writes, when there is one
MaxResultsAfterOtherWrite(written) ==
    IF \E a \in tasks : MaxResultsArgument(a) # written
    THEN MaxResultsArgument(CHOOSE a \in tasks : MaxResultsArgument(a) # written)
    ELSE written

\* self.max_results as the analysis reads it: the handler does not await
\* between its write and the call of the analyzer, so no other task runs
\* between the two
MaxResultsRead(written) == written

\* a tool call that has run, and what it returned
Handled(arguments, response) ==
    [state |-> "done", arguments |-> arguments, response |-> response]

\* handle_call_tool: a request arrives and its handler is scheduled as a task
CallTool(arguments) ==
    /\ Cardinality(tasks) < MaxTasks
    /\ arguments \notin tasks
    /\ tasks' = tasks \cup {arguments}
    /\ UNCHANGED <<search_results, max_results, min_keyword_freq, pc, analysis_type,
                   outcome, stop_words, calls, handled, web>>

\* the event loop runs the handler of one waiting call from its first line to
\* its return; the call of the analyzer returns within the step
_handle_analyze_search_results(arguments) ==
    /\ arguments \in tasks
    /\ tasks' = tasks \ {arguments}
    /\ IF SearchResultsRequired(arguments)
       THEN /\ handled' =
                 Handled(arguments,
                         <<TextContent(<<"S", "e", "a", "r", "c", "h", " ", "r", "e", "s", "u", "l", "t", "s", " ", "a", "r", "e", " ", "r", "e", "q", "u", "i", "r", "e", "d", " ", "f", "o", "r", " ", "a", "n", "a", "l", "y", "s", "i", "s">>)>>)
            /\ UNCHANGED <<max_results, calls>>
       ELSE /\ max_results' = MaxResultsArgument(arguments)
            /\ calls' = IF calls < MaxCalls THEN calls + 1 ELSE calls
            /\ handled' =
                 Handled(arguments,
                         AnalysisResponse(
                             analyze_search_results(
                                 ArgumentOr(arguments.search_results, <<>>),
                                 ArgumentOr(arguments.analysis_type, "summary"),
                                 MaxResultsRead(max_results'),
                                 min_keyword_freq)))
    /\ UNCHANGED <<search_results, min_keyword_freq, pc, analysis_type, outcome,
                   stop_words, web>>

\* SearXNGServer(): a new analyzer, no tool call yet
InitServer ==
    /\ search_results = <<>>
    /\ NewAnalyzer
    /\ NewServer

NextServer ==
    \/ \E arguments \in AnalyzeArguments : CallTool(arguments)
    \/ \E arguments \in AnalyzeArguments : _handle_analyze_search_results(arguments)

SpecServer == InitServer /\ [][NextServer]_vars

-----------------------------------------------------------------------------
(* Properties of the tool analyze_search_results *)

\* the record list, the mode and the max_results of the call that ran last,
\* with the defaults of the tool for what it left out
HandledRecords ==
    IF handled.arguments.search_results.given
    THEN handled.arguments.search_results.value ELSE <<>>

HandledType ==
    IF handled.arguments.analysis_type.given
    THEN handled.arguments.analysis_type.value ELSE "summary"

HandledMaxResults ==
    IF handled.arguments.max_results.given
    THEN handled.arguments.max_results.value ELSE 10

\* a call has run whose arguments hold a non-empty record list
HasAnalysed == handled.state = "done" /\ HandledRecords # <<>>

\* C13: a tool call with a non-empty record list and an unrecognized mode
\* returns one text item that starts with "Analysis configuration error:
\* Unsupported analysis type", every time it runs
C13_UnsupportedTypeResponse ==
    (HasAnalysed /\ HandledType \notin Modes)
        => /\ Len(handled.response) = 1
           /\ DOMAIN handled.response[1] = {"type", "text"}
           /\ handled.response[1].type = "text"
           /\ StartsWith(handled.response[1].text,
                         <<"A", "n", "a", "l", "y", "s", "i", "s", " ", "c", "o", "n", "f", "i", "g", "u", "r", "a", "t", "i", "o", "n", " ", "e", "r", "r", "o", "r", ":", " ", "U", "n", "s", "u", "p", "p", "o", "r", "t", "e", "d", " ", "a", "n", "a", "l", "y", "s", "i", "s", " ", "t", "y", "p", "e">>)

\* C13, reached: a call with three records, the mode "invalid_type" and
\* max_results 1 has returned, after the analyzer had served a call
C13_Witness ==
    /\ HasAnalysed
    /\ HandledType = "invalid_type"
    /\ HandledMaxResults = 1
    /\ calls > 1
    /\ handled.response[1].text
         = <<"A", "n", "a", "l", "y", "s", "i", "s", " ", "c", "o", "n", "f", "i", "g", "u", "r", "a", "t", "i", "o", "n", " ", "e", "r", "r", "o", "r", ":", " ", "U", "n", "s", "u", "p", "p", "o", "r", "t", "e", "d", " ", "a", "n", "a", "l", "y", "s", "i", "s", " ", "t", "y", "p", "e", ":", " ", "i", "n", "v", "a", "l", "i", "d", "_", "t", "y", "p", "e">>

\* a step that runs a waiting call whose record list is empty or left out
RejectsCall ==
    \E a \in tasks \ tasks' :
        ~a.search_results.given \/ a.search_results.value = <<>>

\* C14: a tool call whose record list is empty or left out returns the one
\* text item "Search results are required for analysis", and the step that
\* runs it neither calls the analyzer nor writes its max_results
C14_EmptyResultsRejected ==
    /\ [](handled.state = "done" /\ HandledRecords = <<>>
            => handled.response
                 = <<[type |-> "text",
                      text |-> <<"S", "e", "a", "r", "c", "h", " ", "r", "e", "s", "u", "l", "t", "s", " ", "a", "r", "e", " ", "r", "e", "q", "u", "i", "r", "e", "d", " ", "f", "o", "r", " ", "a", "n", "a", "l", "y", "s", "i", "s">>]>>)
    /\ [][RejectsCall => max_results' = max_results /\ calls' = calls]_vars

\* C14, reached: a call that leaves out the record list and passes
\* max_results 1 has returned while the analyzer holds the max_results 2 of
\* the one call it has served
C14_Witness ==
    /\ handled.state = "done"
    /\ ~handled.arguments.search_results.given
    /\ HandledMaxResults = 1
    /\ max_results = 2
    /\ calls = 1

\* what the tool returns for a report or fault of the analyzer: the JSON
\* text of the report, or one of the two error texts
ResponseFor(result) ==
    IF result.kind = "return" THEN <<[type |-> "text", json |-> JsonDumps(result.value)]>>
    ELSE <<[type |-> "text",
            text |-> (IF result.exc = "ValueError" THEN <<"A", "n", "a", "l", "y", "s", "i", "s", " ", "c", "o", "n", "f", "i", "g", "u", "r", "a", "t", "i", "o", "n", " ", "e", "r", "r", "o", "r", ":", " ">>
                      ELSE <<"E", "r", "r", "o", "r", " ", "p", "e", "r", "f", "o", "r", "m", "i", "n", "g", " ", "a", "n", "a", "l", "y", "s", "i", "s", ":", " ">>) \o StrOfError(result)]>>

\* C15: the call that ran last is analysed with the max_results of its own
\* arguments, 10 when it left them out, whatever the calls before it passed
C15_OwnMaxResults ==
    HasAnalysed
        => handled.response
             = ResponseFor(analyze_search_results(HandledRecords, HandledType,
                                                  HandledMaxResults, min_keyword_freq))

\* C15, reached: a call that left out max_results has run after a call that
\* passed one, on three records the last of which makes the summary fail:
\* it was analysed with all three
C15_Witness ==
    /\ HasAnalysed
    /\ ~handled.arguments.max_results.given
    /\ HandledType = "summary"
    /\ calls > 1
    /\ max_results = 10
    /\ handled.response[1].text
         = <<"E", "r", "r", "o", "r", " ", "p", "e", "r", "f", "o", "r", "m", "i", "n", "g", " ", "a", "n", "a", "l", "y", "s", "i", "s", ":", " ", "'", "N", "o", "n", "e", "T", "y", "p", "e", "'", " ", "o", "b", "j", "e", "c", "t", " ", "h", "a", "s", " ", "n", "o", " ", "a", "t", "t", "r", "i", "b", "u", "t", "e", " ", "'", "l", "o", "w", "e", "r", "'">>

\* a step that runs a waiting call with a non-empty record list while another
\* call with another max_results waits
RunsBesideOther ==
    /\ \E a \in tasks \ tasks' : a.search_results.given /\ a.search_results.value # <<>>
    /\ \E a \in tasks \ tasks', b \in tasks' : a.max_results # b.max_results

\* C18: a call that runs while a call with another max_results waits is
\* truncated with its own max_results
C18_ConcurrentOwnMaxResults ==
    [][RunsBesideOther
          => /\ max_results' = HandledMaxResults'
             /\ HandledType' = "summary" /\ HandledMaxResults' < 3
                  => /\ DOMAIN handled'.response[1] = {"type", "json"}
                     /\ handled'.response[1].json.metrics.total_results
                          = HandledMaxResults']_vars

\* C18, reached: a summary call with max_results 2 has returned a report on
\* two records while a call with max_results 1 on three records waits
C18_Witness ==
    /\ HasAnalysed
    /\ HandledType = "summary"
    /\ HandledMaxResults = 2
    /\ DOMAIN handled.response[1] = {"type", "json"}
    /\ handled.response[1].json.metrics.total_results = 2
    /\ \E b \in tasks : b.max_results = Argument(TRUE, 1) /\ b.search_results.value # <<>>

-----------------------------------------------------------------------------
(* Batches of many records on many domains, for the ranked lists *)

Alphabet == <<"a", "b", "c", "d", "e", "f", "g", "h", "i", "j", "k", "l", "m", "n", "o", "p", "q", "r", "s", "t", "u", "v", "w", "x", "y", "z">>

\* the k-th record of a result page:
\* {"title": "Kw<k> top<k>", "url": "https://www.<k>x.io/", "content": ""}
\* with the k-th letter for <k>
PageRecord(k) ==
    [title |-> Str(<<"K", "w">> \o <<Alphabet[k]>> \o <<" ", "t", "o", "p">> \o <<Alphabet[k]>>),
     url |-> Str(<<"h", "t", "t", "p", "s", ":", "/", "/", "w", "w", "w", ".">> \o <<Alphabet[k]>> \o <<"x", ".", "i", "o", "/">>),
     content |-> Str(<<>>)]

\* the largest number of different records in a batch
MaxDistinct == 12

\* the first n records of the page, followed by records a and b once more
PageBatch(n, a, b) == [i \in 1..n |-> PageRecord(i)] \o <<PageRecord(a), PageRecord(b)>>

\* the batches a caller may pass
PageBatches ==
    {<<>>} \cup {PageBatch(n, a, a) : n, a \in 1..MaxDistinct}
           \cup {PageBatch(n, a, MaxDistinct) : n, a \in 1..MaxDistinct}

\* SearchResultAnalyzer() and a caller holding a batch
InitBatch ==
    /\ search_results \in PageBatches
    /\ NewAnalyzer
    /\ NewServer

\* the caller leaves max_results at 10 or raises it to hold a whole batch
NextBatch ==
    \/ \E m \in {DefaultMaxResults, MaxDistinct + 2} : SetMaxResults(m)
    \/ \E t \in AnalysisTypes : Analyze(t)
    \/ Return

SpecBatch == InitBatch /\ [][NextBatch]_vars

-----------------------------------------------------------------------------
(* A caller that tunes min_keyword_freq; records with related keywords and   *)
(* records of low, medium and high relevance                                *)

\* {"title": "Python Pythonic tests", "url": "https://a.io",
\*  "content": "python testing"}
rPythonic ==
    [title |-> Str(<<"P", "y", "t", "h", "o", "n", " ", "P", "y", "t", "h", "o", "n", "i", "c", " ", "t", "e", "s", "t", "s">>),
     url |-> Str(<<"h", "t", "t", "p", "s", ":", "/", "/", "a", ".", "i", "o">>),
     content |-> Str(<<"p", "y", "t", "h", "o", "n", " ", "t", "e", "s", "t", "i", "n", "g">>)]

\* {"title": "Testing news", "url": "https://b.io", "content": "new pythonic test"}
rTesting ==
    [title |-> Str(<<"T", "e", "s", "t", "i", "n", "g", " ", "n", "e", "w", "s">>),
     url |-> Str(<<"h", "t", "t", "p", "s", ":", "/", "/", "b", ".", "i", "o">>),
     content |-> Str(<<"n", "e", "w", " ", "p", "y", "t", "h", "o", "n", "i", "c", " ", "t", "e", "s", "t">>)]

\* {"title": "Zeros", "url": "https://z.io", "content": "000...0"} with 301
\* zeros: relevance 0.3 + 0.2 + 0.2 + 0.1, which is a float below 0.8
rZeros ==
    [title |-> Str(<<"Z", "e", "r", "o", "s">>),
     url |-> Str(<<"h", "t", "t", "p", "s", ":", "/", "/", "z", ".", "i", "o">>),
     content |-> Str([i \in 1..301 |-> "0"])]

\* {"title": "Plain", "url": "ftp://p.io", "content": "000...0"} with 101
\* zeros: relevance 0.3 + 0.2
rPlain ==
    [title |-> Str(<<"P", "l", "a", "i", "n">>),
     url |-> Str(<<"f", "t", "p", ":", "/", "/", "p", ".", "i", "o">>),
     content |-> Str([i \in 1..101 |-> "0"])]

\* the records such a caller may pass
KeywordPool == {rPythonic, rTesting, rZeros, rPlain, rLong}

\* the values a caller may assign to min_keyword_freq
MinKeywordFreqArgs == {1, DefaultMinKeywordFreq, 3}

\* analyzer.min_keyword_freq = f, between two calls
SetMinKeywordFreq(f) ==
    /\ pc = "idle"
    /\ min_keyword_freq' = f
    /\ UNCHANGED <<search_results, max_results, pc, analysis_type, outcome,
                   stop_words, calls, tasks, handled, web>>

\* SearchResultAnalyzer() and a caller that holds no record yet
InitTuned ==
    /\ search_results = <<>>
    /\ NewAnalyzer
    /\ NewServer

NextTuned ==
    \/ \E f \in MinKeywordFreqArgs : SetMinKeywordFreq(f)
    \/ ChangeRecords(KeywordPool)
    \/ \E t \in AnalysisTypes : Analyze(t)
    \/ Return

SpecTuned == InitTuned /\ [][NextTuned]_vars

-----------------------------------------------------------------------------
(* The tools metasearch_web and fetch_web_content of the MCP server: the    *)
(* handlers _handle_web_search and _handle_web_url_read.  Each awaits one   *)
(* call of the client, which returns or raises.                             *)

\* what the client raises: an exception of a class with a message, and for
\* an HTTPStatusError the status code of the response
ClientError(class, message, status_code) ==
    [kind |-> "raise", class |-> class, message |-> message, status_code |-> status_code]

ClientErrors ==
    {ClientError("ValueError", <<"I", "n", "v", "a", "l", "i", "d", " ", "o", "r", " ", "p", "o", "t", "e", "n", "t", "i", "a", "l", "l", "y", " ", "m", "a", "l", "i", "c", "i", "o", "u", "s", " ", "U", "R", "L", ":", " ", "x", ".", ".", ".">>, 0),
     ClientError("JSONDecodeError", <<"E", "x", "p", "e", "c", "t", "i", "n", "g", " ", "v", "a", "l", "u", "e", ":", " ", "l", "i", "n", "e", " ", "1", " ", "c", "o", "l", "u", "m", "n", " ", "1", " ", "(", "c", "h", "a", "r", " ", "0", ")">>, 0),
     ClientError("TimeoutException", <<"R", "e", "q", "u", "e", "s", "t", " ", "t", "i", "m", "e", "o", "u", "t", " ", "a", "f", "t", "e", "r", " ", "3", "0", " ", "s", "e", "c", "o", "n", "d", "s">>, 0),
     ClientError("ReadTimeout", <<>>, 0),
     ClientError("HTTPStatusError", <<"N", "o", "t", " ", "F", "o", "u", "n", "d">>, 404),
     ClientError("HTTPStatusError", <<"I", "n", "t", "e", "r", "n", "a", "l", " ", "S", "e", "r", "v", "e", "r", " ", "E", "r", "r", "o", "r">>, 500),
     ClientError("ConnectError", <<"F", "a", "i", "l", "e", "d", " ", "t", "o", " ", "c", "o", "n", "n", "e", "c", "t", " ", "t", "o", " ", "s", "e", "r", "v", "e", "r">>, 0),
     ClientError("NetworkError", <<"N", "e", "t", "w", "o", "r", "k", " ", "u", "n", "r", "e", "a", "c", "h", "a", "b", "l", "e">>, 0),
     ClientError("TooManyRedirects", <<"E", "x", "c", "e", "e", "d", "e", "d", " ", "m", "a", "x", "i", "m", "u", "m", " ", "r", "e", "d", "i", "r", "e", "c", "t", "s">>, 0),
     ClientError("RuntimeError", <<"b", "o", "o", "m">>, 0)}

\* the classes an exception of a class is an instance of
Bases(class) ==
    {class, "Exception"} \cup
    CASE class = "JSONDecodeError" -> {"ValueError"}
      [] class \in {"TimeoutException", "NetworkError"} ->
            {"TransportError", "RequestError", "HTTPError"}
      [] class = "ReadTimeout" ->
            {"TimeoutException", "TransportError", "RequestError", "HTTPError"}
      [] class = "ConnectError" ->
            {"NetworkError", "TransportError", "RequestError", "HTTPError"}
      [] class = "TooManyRedirects" -> {"RequestError", "HTTPError"}
      [] class = "HTTPStatusError" -> {"HTTPError"}
      [] OTHER -> {}

\* type(e) is class, where isinstance is meant
IsExactClass(e, class) == e.class = class

\* whether "except class" catches e
IsInstance(e, class) == class \in Bases(e.class)

\* what client.search returns: {"results": [...]}, or what it raises
SearchOutcomes ==
    {Returned([results |-> rs]) : rs \in {<<>>, <<rGov>>, <<rGithub, rBadUrl>>}}
        \cup ClientErrors

\* what client.fetch_url returns: the text of the page, or what it raises
FetchOutcomes == {Returned(<<"<", "p", ">", "h", "i", "<", "/", "p", ">", " ">>)} \cup ClientErrors

\* the arguments a client may pass to metasearch_web
SearchArguments ==
    [query : {<<>>, <<" ">>, <<"p", "y", "t", "h", "o", "n">>, <<"t", "l", "a">>, <<"m", "c", "p">>},
     pageno : {Argument(FALSE, 0), Argument(TRUE, 2)}]

\* the arguments a client may pass to fetch_web_content: the calls modelled
\* ask for the raw page, which the handler returns without converting it
FetchArguments ==
    [url : {<<>>, <<" ">>, <<"h", "t", "t", "p", "s", ":", "/", "/", "a", ".", "i", "o">>, <<"h", "t", "t", "p", "s", ":", "/", "/", "b", ".", "i", "o", "/", "x">>}, raw : {TRUE}]

\* SearXNGServer.MAX_CONTENT_SIZE without SEARXNG_MAX_CONTENT_SIZE
MAX_CONTENT_SIZE == 10485760

RECURSIVE StrOfInt(_)
\* str(n) for n >= 0
StrOfInt(n) ==
    IF n < 10 THEN <<<<"0", "1", "2", "3", "4", "5", "6", "7", "8", "9">>[n + 1]>>
    ELSE StrOfInt(n \div 10) \o StrOfInt(n % 10)

\* s.strip()
Strip(s) ==
    SubSeq(s,
           IF \E i \in 1..Len(s) : ~IsSpace(s[i])
           THEN CHOOSE i \in 1..Len(s) : ~IsSpace(s[i]) /\ \A j \in 1..(i - 1) : IsSpace(s[j])
           ELSE 1,
           IF \E i \in 1..Len(s) : ~IsSpace(s[i])
           THEN CHOOSE i \in 1..Len(s) : ~IsSpace(s[i]) /\ \A j \in (i + 1)..Len(s) : IsSpace(s[j])
           ELSE 0)

RECURSIVE Join(_)
\* "\n".join(lines)
Join(lines) ==
    IF Len(lines) = 0 THEN <<>>
    ELSE IF Len(lines) = 1 THEN lines[1]
    ELSE lines[1] \o <<"\n">> \o Join(Tail(lines))

\* f"{result.get(key, default)}"
Display(field, default) ==
    IF field.tag = "absent" THEN default
    ELSE IF field.tag = "none" THEN <<"N", "o", "n", "e">>
    ELSE field.s

\* the lines the loop of _handle_web_search appends for result i
ResultLines(i, result) ==
    <<<<"*", "*", "R", "e", "s", "u", "l", "t", " ">> \o StrOfInt(i) \o <<":", " ">> \o Display(result.title, <<"N", "o", " ", "t", "i", "t", "l", "e">>) \o <<"*", "*">>,
      <<"U", "R", "L", ":", " ">> \o Display(result.url, <<"N", "o", " ", "U", "R", "L">>)>>
    \o (IF Truthy(result.content) /\ Strip(result.content.s) # <<>>
        THEN <<<<"C", "o", "n", "t", "e", "n", "t", ":", " ">> \o Strip(result.content.s)>>
        ELSE <<>>)
    \o << <<>> >>

\* the four except clauses of both handlers in their order, with the texts
\* of the handler; an exception that no clause catches leaves the handler
ErrorResponse(e, on_timeout, on_status, on_other) ==
    IF IsInstance(e, "ValueError")
    THEN Returned(<<TextContent(<<"C", "o", "n", "f", "i", "g", "u", "r", "a", "t", "i", "o", "n", " ", "e", "r", "r", "o", "r", ":", " ">> \o e.message)>>)
    ELSE IF IsInstance(e, "TimeoutException") THEN Returned(<<TextContent(on_timeout)>>)
    ELSE IF IsInstance(e, "HTTPStatusError")
    THEN Returned(<<TextContent(on_status \o StrOfInt(e.status_code))>>)
    ELSE IF IsInstance(e, "Exception")
    THEN Returned(<<TextContent(on_other \o e.message)>>)
    ELSE e

\* _handle_web_search from the return of client.search on
SearchResponse(result) ==
    IF result.kind = "raise"
    THEN ErrorResponse(result, <<"S", "e", "a", "r", "c", "h", " ", "r", "e", "q", "u", "e", "s", "t", " ", "t", "i", "m", "e", "d", " ", "o", "u", "t", ".", " ", "P", "l", "e", "a", "s", "e", " ", "t", "r", "y", " ", "a", "g", "a", "i", "n", ".">>,
                       <<"S", "e", "a", "r", "c", "h", " ", "f", "a", "i", "l", "e", "d", " ", "w", "i", "t", "h", " ", "H", "T", "T", "P", " ", "e", "r", "r", "o", "r", " ">>, <<"E", "r", "r", "o", "r", " ", "p", "e", "r", "f", "o", "r", "m", "i", "n", "g", " ", "s", "e", "a", "r", "c", "h", ":", " ">>)
    ELSE IF result.value.results = <<>>
    THEN Returned(<<TextContent(<<"N", "o", " ", "r", "e", "s", "u", "l", "t", "s", " ", "f", "o", "u", "n", "d">>)>>)
    ELSE Returned(<<TextContent(Join(Flatten(
             [i \in 1..Len(result.value.results) |->
                 ResultLines(i, result.value.results[i])])))>>)

\* _handle_web_url_read from the return of client.fetch_url on, for raw = True
FetchResponse(result) ==
    IF result.kind = "raise"
    THEN ErrorResponse(result, <<"R", "e", "q", "u", "e", "s", "t", " ", "t", "i", "m", "e", "d", " ", "o", "u", "t", ".", " ", "P", "l", "e", "a", "s", "e", " ", "t", "r", "y", " ", "a", "g", "a", "i", "n", ".">>,
                       <<"F", "a", "i", "l", "e", "d", " ", "t", "o", " ", "f", "e", "t", "c", "h", " ", "U", "R", "L", ":", " ", "H", "T", "T", "P", " ", "e", "r", "r", "o", "r", " ">>, <<"E", "r", "r", "o", "r", " ", "f", "e", "t", "c", "h", "i", "n", "g", " ", "U", "R", "L", ":", " ">>)
    ELSE IF Len(result.value) > MAX_CONTENT_SIZE
    THEN Returned(<<TextContent(<<"C", "o", "n", "t", "e", "n", "t", " ", "t", "o", "o", " ", "l", "a", "r", "g", "e", " ", "(">> \o StrOfInt(Len(result.value))
                                \o <<" ", "b", "y", "t", "e", "s", ")", ".", " ", "M", "a", "x", "i", "m", "u", "m", " ", "a", "l", "l", "o", "w", "e", "d", " ", "s", "i", "z", "e", " ", "i", "s", " ">>
                                \o StrOfInt(MAX_CONTENT_SIZE) \o <<" ", "b", "y", "t", "e", "s", ".">>)>>)
    ELSE Returned(<<TextContent(result.value)>>)

\* a handler that awaits the client
Awaiting(tool, arguments) == [state |-> "awaiting", tool |-> tool, arguments |-> arguments]

\* a handler that has returned or has let an exception through, after the
\* client returned or raised (NoCall when it did not call the client)
Finished(tool, arguments, client, response) ==
    [state |-> "done", tool |-> tool, arguments |-> arguments, client |-> client,
     response |-> response]

\* _handle_web_search up to the await of client.search
_handle_web_search(arguments) ==
    /\ web.state # "awaiting"
    /\ web' = IF Strip(arguments.query) = <<>>
              THEN Finished("metasearch_web", arguments, NoCall,
                            Returned(<<TextContent(<<"S", "e", "a", "r", "c", "h", " ", "q", "u", "e", "r", "y", " ", "i", "s", " ", "r", "e", "q", "u", "i", "r", "e", "d">>)>>))
              ELSE Awaiting("metasearch_web", arguments)
    /\ UNCHANGED <<search_results, max_results, min_keyword_freq, pc, analysis_type,
                   outcome, stop_words, calls, tasks, handled>>

\* _handle_web_url_read up to the await of client.fetch_url
_handle_web_url_read(arguments) ==
    /\ web.state # "awaiting"
    /\ web' = IF Strip(arguments.url) = <<>>
              THEN Finished("fetch_web_content", arguments, NoCall,
                            Returned(<<TextContent(<<"U", "R", "L", " ", "i", "s", " ", "r", "e", "q", "u", "i", "r", "e", "d">>)>>))
              ELSE Awaiting("fetch_web_content", arguments)
    /\ UNCHANGED <<search_results, max_results, min_keyword_freq, pc, analysis_type,
                   outcome, stop_words, calls, tasks, handled>>

\* client.search returns or raises and _handle_web_search runs to its end
SearchCompletes(result) ==
    /\ web.state = "awaiting"
    /\ web.tool = "metasearch_web"
    /\ web' = Finished(web.tool, web.arguments, result, SearchResponse(result))
    /\ UNCHANGED <<search_results, max_results, min_keyword_freq, pc, analysis_type,
                   outcome, stop_words, calls, tasks, handled>>

\* client.fetch_url returns or raises and _handle_web_url_read runs to its end
FetchCompletes(result) ==
    /\ web.state = "awaiting"
    /\ web.tool = "fetch_web_content"
    /\ web' = Finished(web.tool, web.arguments, result, FetchResponse(result))
    /\ UNCHANGED <<search_results, max_results, min_keyword_freq, pc, analysis_type,
                   outcome, stop_words, calls, tasks, handled>>

NextWeb ==
    \/ \E arguments \in SearchArguments : _handle_web_search(arguments)
    \/ \E arguments \in FetchArguments : _handle_web_url_read(arguments)
    \/ \E result \in SearchOutcomes : SearchCompletes(result)
    \/ \E result \in FetchOutcomes : FetchCompletes(result)

SpecWeb == InitServer /\ [][NextWeb]_vars

-----------------------------------------------------------------------------
(* Properties of the tools metasearch_web and fetch_web_content *)

\* the client has raised in the call that ran last
ClientRaised == web.state = "done" /\ web.client # NoCall /\ web.client.kind = "raise"

\* C16: when the client raises, the handler returns one text item with a
\* text; for a timeout the text holds "timed out", for an HTTP status error
\* it holds the status code
C16_ClientErrorsReturned ==
    ClientRaised
        => /\ web.response.kind = "return"
           /\ Len(web.response.value) = 1
           /\ web.response.value[1].type = "text"
           /\ web.response.value[1].text # <<>>
           /\ web.client.class \in {"TimeoutException", "ReadTimeout"}
                => Contains(web.response.value[1].text, <<"t", "i", "m", "e", "d", " ", "o", "u", "t">>)
           /\ (web.client.class = "HTTPStatusError" /\ web.client.status_code = 404)
                => Contains(web.response.value[1].text, <<"4", "0", "4">>)
           /\ (web.client.class = "HTTPStatusError" /\ web.client.status_code = 500)
                => Contains(web.response.value[1].text, <<"5", "0", "0">>)

\* C16, reached: client.fetch_url has raised ReadTimeout and the handler has
\* returned its timeout text
C16_Witness ==
    /\ ClientRaised
    /\ web.tool = "fetch_web_content"
    /\ web.client.class = "ReadTimeout"
    /\ web.response = Returned(<<TextContent(<<"R", "e", "q", "u", "e", "s", "t", " ", "t", "i", "m", "e", "d", " ", "o", "u", "t", ".", " ", "P", "l", "e", "a", "s", "e", " ", "t", "r", "y", " ", "a", "g", "a", "i", "n", ".">>)>>)

-----------------------------------------------------------------------------
(* Properties of the extraction passes and of the reports *)

\* the records a call analyses: search_results[: self.max_results]
Truncated == SlicePrefix(search_results, max_results)

\* the record has a url with a network location
HasNetloc(result) ==
    Truthy(Get(result.url)) /\ Netloc(Get(result.url).s) # <<>>

\* the network location of the record's url in lowercase, without one
\* leading "www."
HostOf(result) ==
    LET host == Lower(Netloc(Get(result.url).s))
    IN  IF StartsWith(host, <<"w", "w", "w", ".">>) THEN Drop(host, 4) ELSE host

\* C21: the domains of a sources report are the lowercase hosts, without one
\* leading "www.", of the analysed records whose url has a network location,
\* one mention per such record; a record whose url is absent, empty or
\* without network location contributes nothing, so no domain is empty
C21_DomainPerUsableUrl ==
    HasReport("sources")
        => LET scores == outcome.value.credibility_scores
               usable == {i \in 1..Len(Truncated) : HasNetloc(Truncated[i])}
           IN  /\ \A i \in 1..Len(scores) : scores[i].key # <<>>
               /\ {scores[i].key : i \in 1..Len(scores)}
                     = {HostOf(Truncated[i]) : i \in usable}
               /\ scores # <<>>
                     => outcome.value.domain_distribution.total_domains
                           = Cardinality(usable)

\* the word stands at position p of the text, with no \w character next to it
IsTokenAt(text, p, word) ==
    /\ text[p] = word[1]
    /\ p + Len(word) - 1 <= Len(text)
    /\ SubSeq(text, p, p + Len(word) - 1) = word
    /\ p = 1 \/ ~IsWordChar(text[p - 1])
    /\ p + Len(word) > Len(text) \/ ~IsWordChar(text[p + Len(word)])

\* the lowercased title (field 1) or content (field 2) of a record
FieldText(result, field) ==
    Lower(IF field = 1 THEN Get(result.title).s ELSE Get(result.content).s)

\* the positions at which a word stands in a text
TokenPositions(text, word) == {p \in 1..Len(text) : IsTokenAt(text, p, word)}

\* the occurrences <<record, field, position>> of a word in the analysed
\* records
OccurrencesOf(word) ==
    UNION {{<<i, f, p>> : p \in TokenPositions(FieldText(Truncated[i], f), word)} :
              <<i, f>> \in (1..Len(Truncated)) \X {1, 2}}

\* occurrence a comes before occurrence b: by record, then title before
\* content, then position
ComesBefore(a, b) ==
    \/ a[1] < b[1]
    \/ a[1] = b[1] /\ a[2] < b[2]
    \/ a[1] = b[1] /\ a[2] = b[2] /\ a[3] < b[3]

\* some occurrence of the first set comes before every one of the second
SomeBeforeAll(first, second) ==
    \E x \in first : \A y \in second : ComesBefore(x, y)

\* word a occurs in the analysed records before word b does
FirstSeenBefore(a, b) == SomeBeforeAll(OccurrencesOf(a), OccurrencesOf(b))

\* the analysed records with title and content in lowercase
LowerCased(results) ==
    [i \in 1..Len(results) |->
        [title |-> IF results[i].title.tag = "str" THEN Str(Lower(results[i].title.s))
                   ELSE results[i].title,
         url |-> results[i].url,
         content |-> IF results[i].content.tag = "str"
                     THEN Str(Lower(results[i].content.s))
                     ELSE results[i].content]]

\* C22: every keyword of a summary report is made of lowercase letters, has
\* at least 3 of them and is no stop word; its frequency is the number of
\* its occurrences as a token of the lowercased titles and contents, so that
\* upper and lower case input count alike; keywords of equal frequency stand
\* in extraction order: by record, then title before content, then position
C22_KeywordsExtracted ==
    HasReport("summary")
        => LET top == outcome.value.top_keywords
           IN  /\ \A i \in 1..Len(top) :
                     /\ Len(top[i].keyword) >= 3
                     /\ \A k \in 1..Len(top[i].keyword) :
                           top[i].keyword[k] \in LowerLetters
                     /\ top[i].keyword \notin stop_words
                     /\ top[i].frequency = Cardinality(OccurrencesOf(top[i].keyword))
               /\ \A i, j \in 1..Len(top) :
                     (i < j /\ top[i].frequency = top[j].frequency)
                        => FirstSeenBefore(top[i].keyword, top[j].keyword)
               /\ top = _analyze_summary(LowerCased(Truncated)).top_keywords

\* C22, reached: a summary whose keywords come from titles in mixed case and
\* from contents, the first two with the same frequency
C22_Witness ==
    /\ HasReport("summary")
    /\ search_results = <<rGithub, rLong, rFake>>
    /\ Len(outcome.value.top_keywords) > 3
    /\ outcome.value.top_keywords[1] = [keyword |-> <<"p", "y", "t", "h", "o", "n">>, frequency |-> 3]
    /\ outcome.value.top_keywords[2] = [keyword |-> <<"g", "u", "i", "d", "e">>, frequency |-> 3]
    /\ outcome.value.top_keywords[3] = [keyword |-> <<"n", "e", "w">>, frequency |-> 1]

\* in a ranking of the items by count, largest first, and by first
\* appearance in the list of items among equal counts, a stands before b
RanksBefore(items, a, b) ==
    \/ CountOf(items, a) > CountOf(items, b)
    \/ /\ CountOf(items, a) = CountOf(items, b)
       /\ FirstIndex(items, a) < FirstIndex(items, b)

\* the entries [key, value] are the n first of the ranking of the items,
\* each with its count, or all of them when the items have fewer different
\* values
IsRanking(entries, items, n) ==
    /\ Len(entries) = (IF Cardinality(Range(items)) < n THEN Cardinality(Range(items))
                       ELSE n)
    /\ \A i \in 1..Len(entries) :
          /\ entries[i].key \in Range(items)
          /\ entries[i].value = CountOf(items, entries[i].key)
          /\ \A j \in (i + 1)..Len(entries) :
                RanksBefore(items, entries[i].key, entries[j].key)
          /\ \A x \in Range(items) \ {entries[j].key : j \in 1..Len(entries)} :
                RanksBefore(items, entries[i].key, x)

\* a list of tuples (key, count) as entries
EntriesOfTuples(tuples) ==
    [i \in 1..Len(tuples) |-> [key |-> tuples[i].items[1], value |-> tuples[i].items[2]]]

\* the top_keywords of a summary report as entries
EntriesOfKeywords(list) ==
    [i \in 1..Len(list) |-> [key |-> list[i].keyword, value |-> list[i].frequency]]

\* the emerging_topics of a trends report as entries
EntriesOfTopics(list) ==
    [i \in 1..Len(list) |-> [key |-> list[i].topic, value |-> list[i].score]]

\* C23: top_keywords (10) and top_domains (5) of a summary report,
\* emerging_topics (15) of a trends report and top_domains (10) of a sources
\* report hold the entries of highest count, largest count first, entries of
\* equal count in the order in which they were first seen in the input
C23_RankedLists ==
    /\ HasReport("summary") =>
          /\ IsRanking(EntriesOfKeywords(outcome.value.top_keywords),
                       _extract_keywords(Truncated), 10)
          /\ IsRanking(EntriesOfTuples(outcome.value.top_domains),
                       _extract_domains(Truncated), 5)
    /\ HasReport("trends") =>
          IsRanking(EntriesOfTopics(outcome.value.emerging_topics),
                    _extract_keywords(Truncated), 15)
    /\ (HasReport("sources") /\ outcome.value.credibility_scores # <<>>) =>
          IsRanking(EntriesOfTuples(outcome.value.domain_distribution.top_domains),
                    _extract_domains(Truncated), 10)

\* C23, reached: a sources report on 14 records of 12 domains, the last two
\* domains seen twice: they lead the list, and the ninth and tenth domain of
\* the input are cut off
C23_Witness ==
    /\ HasReport("sources")
    /\ search_results = PageBatch(12, 11, 12)
    /\ outcome.value.domain_distribution.unique_domains = 12
    /\ EntriesOfTuples(outcome.value.domain_distribution.top_domains)
         = [i \in 1..10 |->
               IF i <= 2 THEN [key |-> <<Alphabet[10 + i]>> \o <<"x", ".", "i", "o">>, value |-> 2]
               ELSE [key |-> <<Alphabet[i - 2]>> \o <<"x", ".", "i", "o">>, value |-> 1]]

\* the number of analysed records whose title or content holds the word
RecordsHolding(word) == Cardinality({o[1] : o \in OccurrencesOf(word)})

\* the insights of a summary report hold the dominant-keyword entry
DominantEmitted ==
    \E i \in 1..Len(outcome.value.insights) :
        outcome.value.insights[i].text
            = "Dominant keyword: '{}' appears in majority of results"

\* C24: a summary report holds the dominant-keyword insight exactly when its
\* top keyword occurs in more than half of the analysed records
C24_DominantByRecords ==
    HasReport("summary")
        => (DominantEmitted
              <=> /\ outcome.value.top_keywords # <<>>
                  /\ 2 * RecordsHolding(outcome.value.top_keywords[1].keyword)
                        > Len(Truncated))

\* the insights of a trends report hold the recent-majority entry
MajorityRecentEmitted ==
    \E i \in 1..Len(outcome.value.trend_insights) :
        outcome.value.trend_insights[i].text
            = "Majority of results contain recent/timely information"

\* C25: a trends report holds the recent-majority insight exactly when its
\* recent_indicators, the number of analysed records that match the recency
\* word list, exceeds half the number of analysed records
C25_RecentMajority ==
    HasReport("trends")
        => (MajorityRecentEmitted
              <=> 2 * outcome.value.temporal_patterns.recent_indicators
                     > Len(Truncated))

\* the counts of the full domain-to-count mapping of a sources report
DomainCounts ==
    [i \in 1..Len(outcome.value.domain_distribution.domain_distribution) |->
        outcome.value.domain_distribution.domain_distribution[i].value]

\* the largest sum of the counts of at most n domains
LargestSumOf(counts, n) ==
    LET sums == {SeqSum([i \in 1..Len(counts) |-> IF i \in S THEN counts[i] ELSE 0]) :
                    S \in {T \in SUBSET (1..Len(counts)) : Cardinality(T) <= n}}
    IN  CHOOSE s \in sums : \A t \in sums : t <= s

\* the float stands for the quotient n / d
IsQuotient(float, n, d) == float.num * d = n * float.den

\* C26: when a sources report has a domain, diversity_score is 1 minus the
\* sum of the squared shares of the domains and lies in [0,1),
\* concentration_ratio is the share of the three most frequent domains and
\* lies in (0,1], and unique_source_ratio is the number of domains over the
\* number of mentions; with a single domain unique_domains is 1,
\* diversity_score is 0 and concentration_ratio is 1
C26_DiversityMetrics ==
    (HasReport("sources") /\ outcome.value.credibility_scores # <<>>)
        => LET metrics == outcome.value.diversity_metrics
               total == outcome.value.domain_distribution.total_domains
               squares == SeqSum([i \in 1..Len(DomainCounts) |->
                                     DomainCounts[i] * DomainCounts[i]])
           IN  /\ IsQuotient(metrics.diversity_score, total * total - squares,
                             total * total)
               /\ 0 <= metrics.diversity_score.num
               /\ metrics.diversity_score.num < metrics.diversity_score.den
               /\ IsQuotient(metrics.concentration_ratio,
                             LargestSumOf(DomainCounts, 3), total)
               /\ 0 < metrics.concentration_ratio.num
               /\ metrics.concentration_ratio.num <= metrics.concentration_ratio.den
               /\ IsQuotient(metrics.unique_source_ratio, Len(DomainCounts), total)
               /\ Len(DomainCounts) = 1
                     => /\ outcome.value.domain_distribution.unique_domains = 1
                        /\ metrics.diversity_score.num = 0
                        /\ metrics.concentration_ratio.num
                              = metrics.concentration_ratio.den

\* C26, reached: seven records on five domains, of which the three most
\* frequent hold 5 of 7 mentions
C26_Witness ==
    /\ HasReport("sources")
    /\ search_results = PageBatch(5, 1, 1)
    /\ outcome.value.domain_distribution.unique_domains = 5
    /\ outcome.value.diversity_metrics.concentration_ratio = Frac(5, 7)
    /\ outcome.value.diversity_metrics.diversity_score = Frac(49 - 13, 49)

\* C26, reached as well: three records that share one domain
C26_SingleDomain ==
    /\ HasReport("sources")
    /\ search_results = PageBatch(1, 1, 1)
    /\ outcome.value.domain_distribution.total_domains = 3
    /\ outcome.value.domain_distribution.unique_domains = 1
    /\ outcome.value.diversity_metrics.diversity_score.num = 0

\* C27: the domain_distribution of every sources report holds
\* total_domains, unique_domains, domain_concentration (the largest count
\* over total_domains), top_domains and the full mapping domain_distribution,
\* whose counts sum to total_domains, and its diversity_metrics hold
\* diversity_score, concentration_ratio and unique_source_ratio, also when
\* no analysed record has a usable url
C27_SourcesBlocks ==
    HasReport("sources")
        => /\ DOMAIN outcome.value.diversity_metrics
                 = {"diversity_score", "concentration_ratio", "unique_source_ratio"}
           /\ DOMAIN outcome.value.domain_distribution
                 = {"total_domains", "unique_domains", "domain_concentration",
                    "top_domains", "domain_distribution"}
           /\ outcome.value.credibility_scores # <<>>
                 => LET block == outcome.value.domain_distribution
                    IN  /\ SeqSum(DomainCounts) = block.total_domains
                        /\ Len(DomainCounts) = block.unique_domains
                        /\ IsQuotient(block.domain_concentration,
                                      LargestSumOf(DomainCounts, 1),
                                      block.total_domains)

\* the arguments of the entries of source_recommendations with the given text
RecommendationsWith(text) ==
    {outcome.value.source_recommendations[i].args :
        i \in {j \in 1..Len(outcome.value.source_recommendations) :
                  outcome.value.source_recommendations[j].text = text}}

\* the domains of credibility_scores whose score satisfies the test given as
\* low = TRUE for a score below 0.4 and low = FALSE for one of at least 0.8
DomainsScored(low) ==
    Keys(SelectSeq(outcome.value.credibility_scores,
                   LAMBDA e : IF low THEN FloatLess(e.value, Literal(4))
                              ELSE FloatLeq(Literal(8), e.value)))

\* C28: source_recommendations names the domains that score at least 0.8
\* when there are any, names the domains that score below 0.4 when there are
\* any, and holds the cross-verification entry exactly when no domain scores
\* at least 0.8, also when no domain was extracted
C28_SourceRecommendations ==
    HasReport("sources")
        => /\ RecommendationsWith("High credibility sources: {}")
                 = (IF DomainsScored(FALSE) = <<>> THEN {} ELSE {DomainsScored(FALSE)})
           /\ RecommendationsWith("Consider verifying information from: {}")
                 = (IF DomainsScored(TRUE) = <<>> THEN {} ELSE {DomainsScored(TRUE)})
           /\ (RecommendationsWith(
                   "Mixed source credibility - cross-verification recommended") # {})
                 <=> DomainsScored(FALSE) = <<>>

\* the members of all clusters of a keywords report, cluster after cluster
ClusterMembers ==
    Flatten([c \in 1..Len(outcome.value.keyword_clusters) |->
                outcome.value.keyword_clusters[c].value])

\* C29: keyword_frequency of a keywords report holds exactly the extracted
\* keywords that occur at least min_keyword_freq times, each with its count;
\* importance_scores has the same keys; every cluster has at least two
\* members, which are keys of keyword_frequency and agree in their first four
\* characters; no keyword is in two clusters
C29_KeywordsReport ==
    HasReport("keywords")
        => LET extracted == _extract_keywords(Truncated)
               frequency == outcome.value.keyword_frequency
               clusters == outcome.value.keyword_clusters
           IN  /\ Range(Keys(frequency))
                     = {w \in Range(extracted) : CountOf(extracted, w) >= min_keyword_freq}
               /\ Cardinality(Range(Keys(frequency))) = Len(frequency)
               /\ \A i \in 1..Len(frequency) :
                     frequency[i].value = CountOf(extracted, frequency[i].key)
               /\ Keys(outcome.value.importance_scores) = Keys(frequency)
               /\ \A c \in 1..Len(clusters) :
                     /\ Len(clusters[c].value) >= 2
                     /\ \A m \in 1..Len(clusters[c].value) :
                           /\ clusters[c].value[m] \in Range(Keys(frequency))
                           /\ Take(clusters[c].value[m], 4) = Take(clusters[c].value[1], 4)
               /\ Cardinality(Range(ClusterMembers)) = Len(ClusterMembers)

\* C29, reached: with min_keyword_freq lowered to 1, a report of four
\* keywords in two clusters, three of the keywords occurring once
C29_Witness ==
    /\ HasReport("keywords")
    /\ min_keyword_freq = 1
    /\ search_results = <<rPythonic>>
    /\ Keys(outcome.value.keyword_frequency)
         = <<<<"p", "y", "t", "h", "o", "n">>, <<"p", "y", "t", "h", "o", "n", "i", "c">>, <<"t", "e", "s", "t", "s">>, <<"t", "e", "s", "t", "i", "n", "g">>>>
    /\ outcome.value.keyword_clusters
         = <<[key |-> <<"p", "y", "t", "h">>, value |-> <<<<"p", "y", "t", "h", "o", "n">>, <<"p", "y", "t", "h", "o", "n", "i", "c">>>>],
             [key |-> <<"t", "e", "s", "t">>, value |-> <<<<"t", "e", "s", "t", "s">>, <<"t", "e", "s", "t", "i", "n", "g">>>>]>>

\* the number of relevance scores of the report that are at least the
\* float low/10 and, when high is not 0, below the float high/10
ScoresWithin(low, high) ==
    Cardinality({i \in 1..Len(outcome.value.relevance_scores) :
        /\ FloatLeq(Literal(low), outcome.value.relevance_scores[i])
        /\ high = 0 \/ FloatLess(outcome.value.relevance_scores[i], Literal(high))})

\* the sum of a list of scores, in tenths
TenthsOf(scores) == SeqSum([i \in 1..Len(scores) |-> scores[i].tenths])

\* C30: in a relevance report high_relevance counts the scores of at least
\* 0.8, medium_relevance those of at least 0.5 and below 0.8, and
\* low_relevance those below 0.5; the three counts sum to the number of
\* analysed records, which is the number of relevance scores;
\* average_relevance and average_quality are the means of the two score lists
C30_RelevanceDistribution ==
    HasReport("relevance")
        => LET report == outcome.value
               buckets == outcome.value.relevance_distribution
           IN  /\ buckets.high_relevance = ScoresWithin(8, 0)
               /\ buckets.medium_relevance = ScoresWithin(5, 8)
               /\ buckets.low_relevance
                     = Len(report.relevance_scores) - ScoresWithin(5, 0)
               /\ buckets.high_relevance + buckets.medium_relevance
                     + buckets.low_relevance = Len(Truncated)
               /\ Len(report.relevance_scores) = Len(Truncated)
               /\ Len(report.quality_metrics) = Len(Truncated)
               /\ IsQuotient(report.average_relevance,
                             TenthsOf(report.relevance_scores), 10 * Len(Truncated))
               /\ IsQuotient(report.average_quality,
                             TenthsOf(report.quality_metrics), 10 * Len(Truncated))

\* C30, reached: one record in each bucket, with the scores 0.4, 0.5 and 1.0
C30_Witness ==
    /\ HasReport("relevance")
    /\ search_results = <<rTesting, rPlain, rLong>>
    /\ outcome.value.relevance_scores = <<Literal(4), Literal(5), Literal(10)>>
    /\ outcome.value.relevance_distribution
         = [high_relevance |-> 1, medium_relevance |-> 1, low_relevance |-> 1]
    /\ outcome.value.average_relevance = Frac(19, 30)

\* C30, reached as well: 0.3 + 0.2 + 0.2 + 0.1 is a float below 0.8 and falls
\* in the medium bucket
C30_BelowThreshold ==
    /\ HasReport("relevance")
    /\ search_results = <<rZeros>>
    /\ FloatLess(outcome.value.relevance_scores[1], Literal(8))
    /\ outcome.value.relevance_scores[1].tenths = 8
    /\ outcome.value.relevance_distribution.medium_relevance = 1

====
